---- MODULE Spec2Model ----
(***************************************************************************)
(* Behavioural risk scoring of claudescreener.                             *)
(*                                                                         *)
(*   bundlecheck.py  : analyze_launch_transactions, calculate_risk_score,  *)
(*                     main                                                *)
(*   walletscreen.py : calculate_dev_risk_score                            *)
(*   tokenscreen.py  : is_lp_or_dex_account, calculate_custom_score        *)
(*                                                                         *)
(* Numbers that are floats in the source are kept exact: a percentage is   *)
(* the pair (num, den) of the quotient the source divides, and a           *)
(* comparison  num/den*100 >= k  is decided as  num*100 >= k*den.          *)
(***************************************************************************)
EXTENDS Integers, Sequences, FiniteSets, TLC

(***************************************************************************)
(* Bounds of the model.                                                    *)
(***************************************************************************)
MaxRecs == 2          \* records in one fetched transaction list
MaxLaunches == 11     \* total_launches handed to calculate_dev_risk_score
MaxRugs == 2          \* rug_count handed to calculate_dev_risk_score
MaxDead == 4          \* dead_count handed to calculate_dev_risk_score

(***************************************************************************)
(* Input alphabet of the launch analysis (bundlecheck.py).                 *)
(* A slot of 0 stands for a record without a slot: tx.get("slot") is None  *)
(* (falsy) at line 137 and tx.get("slot", 0) is 0 at line 151.             *)
(***************************************************************************)
TargetMint == "MINT"
OtherMint  == "OTHER"
NoWallet   == ""
Wallets    == {"w1", "w2"}
SlotValues == {0, 1, 2, 3}
Timestamps == {0, 1}
Amounts    == {1, 2}

\* Line 161 reads fromUserAccount; a transfer written without one comes from a pool.
TransferFrom(from, m, to, a) ==
    [mint |-> m, fromUserAccount |-> from, toUserAccount |-> to, tokenAmount |-> a]
Transfer(m, to, a) == TransferFrom("pool", m, to, a)

\* Buys of the analysed mint, and one transfer for each way of not being one.
TransferValues ==
    {Transfer(TargetMint, w, a) : w \in Wallets, a \in Amounts}
      \cup {Transfer(OtherMint, "w1", 1),
            Transfer(TargetMint, NoWallet, 1),
            Transfer(TargetMint, "w1", 0),
            Transfer(TargetMint, "w2", -1)}

\* One transfer in a record and, for the inner loop, two: both bought by one
\* wallet (one of them sent by another user wallet), or a buy without a source
\* next to a transfer of another mint.
TransferLists ==
    {<<>>} \cup {<<t>> : t \in TransferValues}
      \cup {<<TransferFrom("w2", TargetMint, "w1", 2), Transfer(TargetMint, "w1", 1)>>,
            <<TransferFrom(NoWallet, TargetMint, "w2", 1), Transfer(OtherMint, "w1", 1)>>}

TxValues == [slot : SlotValues, timestamp : Timestamps, tokenTransfers : TransferLists]

SeqsUpTo(S, n) == UNION {[1..k -> S] : k \in 0..n}

VARIABLES
    entry,            \* "main" (the CLI) or "analyze" (a direct call of the analysis)
    transactions,     \* the fetched record list
    pc,               \* position of the run
    sorted_txs,       \* line 130
    creation_slot,    \* line 133 (0 = None)
    idx,              \* records of sorted_txs folded so far
    buyers_by_slot,   \* line 147: offset -> list of buys
    wallet_purchases, \* line 148: insertion-ordered wallet -> accumulator
    analysis,         \* the dict returned by analyze_launch_transactions
    call,             \* a scorer called on its own: its name and arguments
    result,           \* (score, reasons) of the scorer, or what it raised
    output,           \* what main printed ("": nothing yet)
    age_days,         \* walletscreen main, line 595: wallet_age_days
    created_tokens,   \* walletscreen main, line 599
    created_mints,    \* tokenscreen analyze_royalty_recipient, line 279
    token_outcomes,   \* walletscreen main, line 603
    launch_outcomes,  \* tokenscreen analyze_royalty_recipient, line 354
    classified,       \* the mints classify_token_outcome was called with, in order
    market,           \* what the RugCheck and DexScreener reads return in this run
    previous          \* the result of the earlier run on this input (None: first run)

history == <<age_days, created_tokens, created_mints, token_outcomes,
             launch_outcomes, classified, market, previous>>

vars == <<entry, transactions, pc, sorted_txs, creation_slot, idx,
          buyers_by_slot, wallet_purchases, analysis, call, result, output, history>>

None == <<>>

\* The variables of the wallet-history runs, unused elsewhere.
NoHistory ==
    /\ age_days = None
    /\ created_tokens = <<>>
    /\ created_mints = <<>>
    /\ token_outcomes = <<>>
    /\ launch_outcomes = None
    /\ classified = <<>>
    /\ market = ""
    /\ previous = None

(***************************************************************************)
(* sorted(transactions, key=lambda x: x.get("timestamp", 0)) : stable.     *)
(***************************************************************************)
RECURSIVE InsertByTimestamp(_, _)
InsertByTimestamp(s, x) ==
    IF s = <<>> THEN <<x>>
    ELSE IF s[Len(s)].timestamp <= x.timestamp THEN Append(s, x)
    ELSE Append(InsertByTimestamp(SubSeq(s, 1, Len(s) - 1), x), s[Len(s)])

RECURSIVE SortByTimestamp(_)
SortByTimestamp(txs) ==
    IF txs = <<>> THEN <<>>
    ELSE InsertByTimestamp(SortByTimestamp(SubSeq(txs, 1, Len(txs) - 1)), txs[Len(txs)])

\* Lines 133-141: the slot of the first sorted record whose slot is truthy.
FindCreationSlot(sorted) ==
    LET carrying == {k \in 1..Len(sorted) : sorted[k].slot # 0}
    IN  IF carrying = {} THEN 0
        ELSE sorted[CHOOSE k \in carrying : \A j \in carrying : k <= j].slot

(***************************************************************************)
(* wallet_purchases is a defaultdict: an insertion-ordered list of         *)
(* (wallet, accumulator) entries.                                          *)
(***************************************************************************)
HasWallet(wp, w) == \E k \in 1..Len(wp) : wp[k].wallet = w
WalletIndex(wp, w) == CHOOSE k \in 1..Len(wp) : wp[k].wallet = w
DefaultPurchase(w) == [wallet |-> w, amount |-> 0, slot |-> None, is_block0 |-> FALSE]
Purchase(wp, w) == IF HasWallet(wp, w) THEN wp[WalletIndex(wp, w)] ELSE DefaultPurchase(w)
PutPurchase(wp, e) ==
    IF HasWallet(wp, e.wallet)
    THEN [wp EXCEPT ![WalletIndex(wp, e.wallet)] = e]
    ELSE Append(wp, e)

\* Line 170.
IsBlock0(slot_diff) == slot_diff <= 1

\* Last write wins: slot and is_block0 follow every buy.
RecordPurchaseLastWins(wp, w, amount, slot, is_block0) ==
    LET old == Purchase(wp, w)
    IN  PutPurchase(wp, [old EXCEPT !.amount = old.amount + amount,
                                    !.slot = <<slot>>, !.is_block0 = is_block0])

\* Lines 178-181: add the amount; slot and is_block0 only while slot is None.
RecordPurchase(wp, w, amount, slot, is_block0) ==
    LET old   == Purchase(wp, w)
        added == [old EXCEPT !.amount = old.amount + amount]
    IN  PutPurchase(wp,
            IF added.slot = None
            THEN [added EXCEPT !.slot = <<slot>>, !.is_block0 = is_block0]
            ELSE added)

\* Lines 172-176.
AppendBuy(bbs, slot_diff, buy) ==
    [d \in (DOMAIN bbs) \cup {slot_diff} |->
        IF d \in DOMAIN bbs
        THEN (IF d = slot_diff THEN Append(bbs[d], buy) ELSE bbs[d])
        ELSE <<buy>>]

\* A buy only when the tokens come from a pool or a program, not from a user wallet.
IsBuyFromPool(transfer) ==
    /\ transfer.mint = TargetMint
    /\ transfer.toUserAccount # NoWallet
    /\ transfer.tokenAmount > 0
    /\ transfer.fromUserAccount \notin Wallets

\* Any amount other than zero counted, a negative one too.
IsBuyAnyAmount(transfer) ==
    /\ transfer.mint = TargetMint
    /\ transfer.toUserAccount # NoWallet
    /\ transfer.tokenAmount # 0

\* Lines 156-169: the transfer is a buy of the analysed mint.
IsBuy(transfer) ==
    /\ transfer.mint = TargetMint
    /\ transfer.toUserAccount # NoWallet
    /\ transfer.tokenAmount # 0
    /\ transfer.tokenAmount > 0

\* Lines 155-181: the inner loop over one record's token transfers.
RECURSIVE FoldTransfers(_, _, _, _)
FoldTransfers(acc, transfers, slot, slot_diff) ==
    IF transfers = <<>> THEN acc
    ELSE LET t    == Head(transfers)
             next ==
                 IF IsBuy(t)
                 THEN [bbs |-> AppendBuy(acc.bbs, slot_diff,
                                  [wallet |-> t.toUserAccount,
                                   amount |-> t.tokenAmount, slot |-> slot]),
                       wp  |-> RecordPurchase(acc.wp, t.toUserAccount, t.tokenAmount,
                                              slot, IsBlock0(slot_diff))]
                 ELSE acc
         IN  FoldTransfers(next, Tail(transfers), slot, slot_diff)


(***************************************************************************)
(* Lines 183-219: the Block 0 statistics.                                  *)
(***************************************************************************)
RECURSIVE SumAmounts(_)
SumAmounts(s) == IF s = <<>> THEN 0 ELSE s[1].amount + SumAmounts(Tail(s))

RECURSIVE SelectBlock0(_)
SelectBlock0(wp) ==
    IF wp = <<>> THEN <<>>
    ELSE LET rest == SelectBlock0(Tail(wp))
         IN  IF wp[1].is_block0
             THEN <<[wallet |-> wp[1].wallet, amount |-> wp[1].amount]>> \o rest
             ELSE rest

\* block0_buyers.sort(key=amount, reverse=True): stable, largest first.
RECURSIVE InsertByAmountDesc(_, _)
InsertByAmountDesc(s, x) ==
    IF s = <<>> THEN <<x>>
    ELSE IF s[Len(s)].amount >= x.amount THEN Append(s, x)
    ELSE Append(InsertByAmountDesc(SubSeq(s, 1, Len(s) - 1), x), s[Len(s)])

RECURSIVE SortByAmountDesc(_)
SortByAmountDesc(s) ==
    IF s = <<>> THEN <<>>
    ELSE InsertByAmountDesc(SortByAmountDesc(SubSeq(s, 1, Len(s) - 1)), s[Len(s)])

\* A float of the source is the exact quotient num/den (den > 0); a percentage
\* num/den*100 is kept as the quotient the source divides.
Rat(num, den) == [num |-> num, den |-> den]
Pct(num, den) == Rat(num * 100, den)
ZeroPct == Rat(0, 1)
RatGE(p, k) == p.num >= k * p.den
RatLT(p, k) == p.num < k * p.den
RatGT(p, k) == p.num > k * p.den

\* The quotient taken without the guard.
Block0PctUnguarded(block0_total, total_transferred) ==
    Pct(block0_total, total_transferred)

\* Line 202.
Block0Pct(block0_total, total_transferred) ==
    IF total_transferred > 0 THEN Pct(block0_total, total_transferred) ELSE ZeroPct

\* The first five offsets only: 0 to 4.
EarlyBuyerCountFirstFive(bbs) ==
    LET n(s) == IF s \in DOMAIN bbs THEN Len(bbs[s]) ELSE 0
    IN  n(0) + n(1) + n(2) + n(3) + n(4)

\* Lines 205-206.
EarlyBuyerCount(bbs) ==
    LET n(s) == IF s \in DOMAIN bbs THEN Len(bbs[s]) ELSE 0
    IN  n(0) + n(1) + n(2) + n(3) + n(4) + n(5)

\* Line 218: the counts of the ten lowest offsets.
BuyersBySlotCounts(bbs) ==
    LET kept == {d \in DOMAIN bbs : Cardinality({e \in DOMAIN bbs : e < d}) < 10}
    IN  [d \in kept |-> Len(bbs[d])]

\* The window buyers left in first-seen order.
LaunchStatsUnsorted(cslot, cts, bbs, wp) ==
    LET block0_buyers     == SelectBlock0(wp)
        block0_total      == SumAmounts(SelectBlock0(wp))
        total_transferred == SumAmounts(wp)
    IN  [creation_slot      |-> cslot,
         creation_timestamp |-> cts,
         block0_buyers      |-> block0_buyers,
         block0_count       |-> Len(block0_buyers),
         block0_total       |-> block0_total,
         block0_pct         |-> Block0Pct(block0_total, total_transferred),
         total_transferred  |-> total_transferred,
         early_buyer_count  |-> EarlyBuyerCount(bbs),
         all_buyers         |-> Len(wp),
         buyers_by_slot     |-> BuyersBySlotCounts(bbs)]

\* Lines 183-219.
LaunchStats(cslot, cts, bbs, wp) ==
    LET block0_buyers     == SortByAmountDesc(SelectBlock0(wp))
        block0_total      == SumAmounts(SelectBlock0(wp))
        total_transferred == SumAmounts(wp)
    IN  [creation_slot      |-> cslot,
         creation_timestamp |-> cts,
         block0_buyers      |-> block0_buyers,
         block0_count       |-> Len(block0_buyers),
         block0_total       |-> block0_total,
         block0_pct         |-> Block0Pct(block0_total, total_transferred),
         total_transferred  |-> total_transferred,
         early_buyer_count  |-> EarlyBuyerCount(bbs),
         all_buyers         |-> Len(wp),
         buyers_by_slot     |-> BuyersBySlotCounts(bbs)]

ErrorResult(msg) == [error |-> msg]

\* The error entry overlooked.
HasErrorOverlooked(a) == FALSE

\* Line 505: "error" in analysis.
HasError(a) == "error" \in DOMAIN a

(***************************************************************************)
(* calculate_risk_score (bundlecheck.py 222-275).                          *)
(* A reason is the signed delta and the text of its label.                 *)
(***************************************************************************)
Get(d, k, default) == IF k \in DOMAIN d THEN d[k] ELSE default
Reason(delta, label) == [delta |-> delta, label |-> label]
Clamp(score) == IF score < 0 THEN 0 ELSE IF score > 100 THEN 100 ELSE score
Raised(exc) == [raised |-> exc]
Returned(score, reasons) == [score |-> score, reasons |-> reasons]

\* What one rule does: "score += add" and "reasons.append(f'{delta}: {label}')".
Fires(add, delta, label) == [add |-> add, reasons |-> <<Reason(delta, label)>>]
Skips == [add |-> 0, reasons |-> <<>>]

\* The rules in evaluation order: the running total and the reasons list.
RECURSIVE TotalOf(_)
TotalOf(parts) == IF parts = <<>> THEN 0 ELSE parts[1].add + TotalOf(Tail(parts))
RECURSIVE ReasonsOf(_)
ReasonsOf(parts) == IF parts = <<>> THEN <<>> ELSE parts[1].reasons \o ReasonsOf(Tail(parts))

\* Lines 236-244.
Block0CountRule(block0_count) ==
    IF block0_count >= 20
    THEN Fires(40, 40, "wallets bought in Block 0 (highly coordinated)")
    ELSE IF block0_count >= 10
    THEN Fires(25, 25, "wallets bought in Block 0 (suspicious)")
    ELSE IF block0_count >= 5
    THEN Fires(10, 10, "wallets bought in Block 0")
    ELSE Skips

\* The tiers tested lowest first.
Block0PctRuleLowestFirst(block0_pct) ==
    IF RatLT(block0_pct, 5) THEN Skips
    ELSE IF RatGE(block0_pct, 5) THEN Fires(5, 5, "of supply grabbed in Block 0")
    ELSE IF RatGE(block0_pct, 15) THEN Fires(15, 15, "of supply grabbed in Block 0")
    ELSE IF RatGE(block0_pct, 30) THEN Fires(25, 25, "of supply grabbed in Block 0")
    ELSE Fires(35, 35, "of supply grabbed in Block 0")

\* Lines 247-258.
Block0PctRule(block0_pct) ==
    IF RatGE(block0_pct, 50) THEN Fires(35, 35, "of supply grabbed in Block 0")
    ELSE IF RatGE(block0_pct, 30) THEN Fires(25, 25, "of supply grabbed in Block 0")
    ELSE IF RatGE(block0_pct, 15) THEN Fires(15, 15, "of supply grabbed in Block 0")
    ELSE IF RatGE(block0_pct, 5) THEN Fires(5, 5, "of supply grabbed in Block 0")
    ELSE Skips

\* The largest buyer counted from 2% of the total on.
LargestBuyerRuleFromTwo(largest_buyer_pct) ==
    IF RatGE(largest_buyer_pct, 10) THEN Fires(20, 20, "Single wallet sniped in Block 0")
    ELSE IF RatGE(largest_buyer_pct, 2) THEN Fires(10, 10, "Single wallet sniped in Block 0")
    ELSE Skips

\* Lines 263-268, once largest_buyer_pct has been computed.
LargestBuyerRule(largest_buyer_pct) ==
    IF RatGE(largest_buyer_pct, 10) THEN Fires(20, 20, "Single wallet sniped in Block 0")
    ELSE IF RatGE(largest_buyer_pct, 5) THEN Fires(10, 10, "Single wallet sniped in Block 0")
    ELSE Skips

\* Lines 271-273.
CleanLaunchRule(block0_count, block0_pct) ==
    IF block0_count <= 2 /\ RatLT(block0_pct, 5)
    THEN Fires(-10, -10, "Clean launch (minimal Block 0 activity)")
    ELSE Skips

\* Line 262 divides by analysis.get("total_transferred", 1).
calculate_risk_score(a) ==
    LET block0_count  == Get(a, "block0_count", 0)
        block0_pct    == Get(a, "block0_pct", ZeroPct)
        block0_buyers == Get(a, "block0_buyers", <<>>)
        total         == Get(a, "total_transferred", 1)
    IN  IF block0_buyers # <<>> /\ total = 0
        THEN Raised("ZeroDivisionError")
        ELSE LET parts == <<Block0CountRule(block0_count),
                            Block0PctRule(block0_pct),
                            IF block0_buyers # <<>>
                            THEN LargestBuyerRule(Pct(block0_buyers[1].amount, total))
                            ELSE Skips,
                            CleanLaunchRule(block0_count, block0_pct)>>
             IN  Returned(Clamp(TotalOf(parts)), ReasonsOf(parts))

(***************************************************************************)
(* The run of bundlecheck: main (469-516) calling the analysis (116-219)   *)
(* and the scorer, or the analysis called on its own.                      *)
(***************************************************************************)
Inputs == SeqsUpTo(TxValues, MaxRecs)

(***************************************************************************)
(* A launch sniped by 25 wallets in the creation slot: one of them buys 12 *)
(* and the others 2 each (60 of the 100 transferred); the other 40 are     *)
(* bought two or more slots later.  The largest sniper buys its 12 at once *)
(* or as 6 in the creation slot and 6 fifty slots later.                   *)
(***************************************************************************)
Snipers ==
    <<"s01", "s02", "s03", "s04", "s05", "s06", "s07", "s08", "s09", "s10",
      "s11", "s12", "s13", "s14", "s15", "s16", "s17", "s18", "s19", "s20",
      "s21", "s22", "s23", "s24", "s25">>

LaunchTx(slot, ts, to, amount) ==
    [slot |-> slot, timestamp |-> ts,
     tokenTransfers |-> <<Transfer(TargetMint, to, amount)>>]

SnipedLaunch(S, big, split, late, lateFirst) ==
    LET snipes == [k \in 1..Len(Snipers) |->
                     LaunchTx(S, 10, Snipers[k],
                              IF k = big THEN (IF split THEN 6 ELSE 12) ELSE 2)]
        again  == IF split THEN <<LaunchTx(S + 50, 30, Snipers[big], 6)>> ELSE <<>>
        others == IF late = 1 THEN <<LaunchTx(S + 2, 20, "w1", 40)>>
                  ELSE <<LaunchTx(S + 2, 20, "w1", 20), LaunchTx(S + 3, 20, "w2", 20)>>
    IN  IF lateFirst THEN again \o others \o snipes ELSE snipes \o others \o again

SnipedLaunches ==
    {SnipedLaunch(S, big, split, late, lateFirst) :
        S \in {1, 100}, big \in {1, 13, 25}, split \in BOOLEAN,
        late \in {1, 2}, lateFirst \in BOOLEAN}

\* A launch bought in the creation slot, again five slots later and once in
\* between or after: 4, 5, 6 or 7 slots after the creation slot.
PacedLaunch(S, later) ==
    <<LaunchTx(S, 10, "w1", 3), LaunchTx(S + later, 20, "w2", 2), LaunchTx(S + 5, 30, "w1", 1)>>

PacedLaunches == {PacedLaunch(S, later) : S \in {1, 100}, later \in {4, 5, 6, 7}}

\* A launch of 100 tokens of which one or two wallets buy a + b in the window
\* (b = 0: the second transfer carries no amount) and a third the rest later.
QuietLaunch(S, a, b) ==
    <<LaunchTx(S, 10, "w1", a), LaunchTx(S + 1, 15, "w2", b),
      LaunchTx(S + 3, 20, "w3", 100 - a - b)>>

QuietLaunches == {QuietLaunch(S, a, b) : S \in {1, 100}, a \in {1, 2, 3}, b \in {0, 1, 2}}

\* A direct call of the analysis differs from main only by the guard of
\* lines 495-497, so the short lists are enough for it.
Init ==
    /\ \/ entry = "main"
          /\ transactions \in Inputs \cup SnipedLaunches \cup PacedLaunches \cup QuietLaunches
       \/ entry = "analyze" /\ transactions \in SeqsUpTo(TxValues, 1)
    /\ pc = IF entry = "main" THEN "main" ELSE "analyze"
    /\ sorted_txs = <<>>
    /\ creation_slot = 0
    /\ idx = 0
    /\ buyers_by_slot = <<>>
    /\ wallet_purchases = <<>>
    /\ analysis = None
    /\ call = None
    /\ result = None
    /\ output = ""
    /\ NoHistory

\* main, lines 493-497.
MainFetch ==
    /\ pc = "main"
    /\ IF transactions = <<>>
       THEN /\ output' = "Error: Could not fetch transaction history"
            /\ pc' = "exit"
       ELSE /\ pc' = "analyze"
            /\ UNCHANGED output
    /\ UNCHANGED <<entry, transactions, sorted_txs, creation_slot, idx,
                   buyers_by_slot, wallet_purchases, analysis, call, result>>
    /\ UNCHANGED history

\* analyze_launch_transactions, lines 126-148.
AnalyzeStart ==
    /\ pc = "analyze"
    /\ IF transactions = <<>>
       THEN /\ analysis' = ErrorResult("No transactions found")
            /\ pc' = "returned"
            /\ UNCHANGED <<sorted_txs, creation_slot>>
       ELSE /\ sorted_txs' = SortByTimestamp(transactions)
            /\ creation_slot' = FindCreationSlot(sorted_txs')
            /\ IF creation_slot' = 0
               THEN /\ analysis' = ErrorResult("Could not determine creation slot")
                    /\ pc' = "returned"
               ELSE /\ pc' = "fold"
                    /\ UNCHANGED analysis
    /\ UNCHANGED <<entry, transactions, idx, buyers_by_slot, wallet_purchases,
                   call, result, output>>
    /\ UNCHANGED history

\* analyze_launch_transactions, lines 150-181: one record of the loop.
FoldTx ==
    /\ pc = "fold"
    /\ idx < Len(sorted_txs)
    /\ LET tx        == sorted_txs[idx + 1]
           slot      == tx.slot
           slot_diff == slot - creation_slot
           acc       == FoldTransfers([bbs |-> buyers_by_slot, wp |-> wallet_purchases],
                                      tx.tokenTransfers, slot, slot_diff)
       IN  /\ buyers_by_slot' = acc.bbs
           /\ wallet_purchases' = acc.wp
    /\ idx' = idx + 1
    /\ UNCHANGED <<entry, transactions, pc, sorted_txs, creation_slot, analysis,
                   call, result, output>>
    /\ UNCHANGED history

CreationTimestamp(sorted) ==
    LET carrying == {k \in 1..Len(sorted) : sorted[k].slot # 0}
    IN  sorted[CHOOSE k \in carrying : \A j \in carrying : k <= j].timestamp

\* analyze_launch_transactions, lines 183-219.
ComputeStats ==
    /\ pc = "fold"
    /\ idx = Len(sorted_txs)
    /\ analysis' = LaunchStats(creation_slot, CreationTimestamp(sorted_txs),
                               buyers_by_slot, wallet_purchases)
    /\ pc' = "returned"
    /\ UNCHANGED <<entry, transactions, sorted_txs, creation_slot, idx,
                   buyers_by_slot, wallet_purchases, call, result, output>>
    /\ UNCHANGED history

\* main, lines 505-507.
MainError ==
    /\ pc = "returned"
    /\ entry = "main"
    /\ HasError(analysis)
    /\ output' = "Error: " \o analysis.error
    /\ pc' = "exit"
    /\ UNCHANGED <<entry, transactions, sorted_txs, creation_slot, idx,
                   buyers_by_slot, wallet_purchases, analysis, call, result>>
    /\ UNCHANGED history

\* main, lines 509-516.
MainScore ==
    /\ pc = "returned"
    /\ entry = "main"
    /\ ~HasError(analysis)
    /\ result' = calculate_risk_score(analysis)
    /\ output' = IF "raised" \in DOMAIN result' THEN "Traceback" ELSE "report"
    /\ pc' = "done"
    /\ UNCHANGED <<entry, transactions, sorted_txs, creation_slot, idx,
                   buyers_by_slot, wallet_purchases, analysis, call>>
    /\ UNCHANGED history

Next == MainFetch \/ AnalyzeStart \/ FoldTx \/ ComputeStats \/ MainError \/ MainScore

Spec == Init /\ [][Next]_vars

(***************************************************************************)
(* Properties of the launch analysis, stated on the Buy events of the      *)
(* records themselves rather than on the accumulators the loop keeps.      *)
(***************************************************************************)
IsNone(x) == DOMAIN x = {}

RECURSIVE BuysOfTransfers(_, _)
BuysOfTransfers(transfers, slot) ==
    IF transfers = <<>> THEN <<>>
    ELSE (IF IsBuy(Head(transfers))
          THEN <<[wallet |-> Head(transfers).toUserAccount,
                  amount |-> Head(transfers).tokenAmount, slot |-> slot]>>
          ELSE <<>>) \o BuysOfTransfers(Tail(transfers), slot)

\* The Buy events of the first n sorted records, in processing order.
RECURSIVE BuyEvents(_)
BuyEvents(n) ==
    IF n = 0 THEN <<>>
    ELSE BuyEvents(n - 1) \o BuysOfTransfers(sorted_txs[n].tokenTransfers, sorted_txs[n].slot)

BuysBy(events, w) == SelectSeq(events, LAMBDA b : b.wallet = w)
BuyersOf(events) == {events[k].wallet : k \in 1..Len(events)}
FirstOffset(events, w) == BuysBy(events, w)[1].slot - creation_slot

CaptureOnceState ==
    LET events == BuyEvents(idx)
    IN  /\ {wallet_purchases[k].wallet : k \in 1..Len(wallet_purchases)} = BuyersOf(events)
        /\ \A k \in 1..Len(wallet_purchases) :
             LET e    == wallet_purchases[k]
                 mine == BuysBy(events, e.wallet)
             IN  /\ e.slot = <<mine[1].slot>>
                 /\ e.is_block0 = IsBlock0(mine[1].slot - creation_slot)
                 /\ e.amount = SumAmounts(mine)

CaptureOnceStep ==
    /\ Len(wallet_purchases') >= Len(wallet_purchases)
    /\ \A k \in 1..Len(wallet_purchases) :
         /\ wallet_purchases'[k].wallet = wallet_purchases[k].wallet
         /\ wallet_purchases'[k].slot = wallet_purchases[k].slot
         /\ wallet_purchases'[k].is_block0 = wallet_purchases[k].is_block0
         /\ wallet_purchases'[k].amount >= wallet_purchases[k].amount

\* C2: a wallet's is_block0 flag and first-seen slot are those of its first Buy
\* in processing order and no later Buy of the wallet changes them, while its
\* amount is the sum of all its Buys folded so far.
C2_CaptureOnce == []CaptureOnceState /\ [][CaptureOnceStep]_vars

\* A wallet that first bought in the creation slot and bought again 50 slots
\* later: still a window buyer, both buys in its amount.
C2_Witness ==
    \E k \in 1..Len(wallet_purchases) :
        LET e    == wallet_purchases[k]
            mine == BuysBy(BuyEvents(idx), e.wallet)
        IN  /\ Len(mine) = 2
            /\ mine[1].slot - creation_slot = 0
            /\ mine[2].slot - creation_slot = 50
            /\ e.is_block0
            /\ e.slot = <<creation_slot>>
            /\ e.amount = mine[1].amount + mine[2].amount

\* C3: a wallet is a window buyer if and only if its first Buy lies in the
\* creation slot or in the slot immediately following it (offset 0 or 1).
C3_WindowIffOffset01 ==
    \A k \in 1..Len(wallet_purchases) :
        wallet_purchases[k].is_block0
            <=> FirstOffset(BuyEvents(idx), wallet_purchases[k].wallet) \in {0, 1}

\* C4: the creation slot is the minimum slot over the records that carry a slot,
\* so that no slot-carrying record has a negative offset.
C4_CreationSlotIsMinimum ==
    pc = "fold" =>
        /\ \E k \in 1..Len(transactions) : transactions[k].slot = creation_slot
        /\ \A k \in 1..Len(transactions) :
             transactions[k].slot # 0 => transactions[k].slot - creation_slot >= 0

NoReferencePoint == \A k \in 1..Len(transactions) : transactions[k].slot = 0

\* C5: with an empty record list or no record carrying a slot the analysis
\* returns an error entry and no metrics, main prints the error and exits, and
\* the scorer is never called; a score exists only after an analysis without
\* error.
C5_MissingReferencePoint ==
    /\ NoReferencePoint =>
         /\ IsNone(result)
         /\ pc # "done"
         /\ output \notin {"report", "Traceback"}
         /\ pc = "returned" => DOMAIN analysis = {"error"}
         /\ pc = "exit" => output # ""
    /\ ~IsNone(result) =>
         /\ pc = "done"
         /\ ~NoReferencePoint
         /\ "error" \notin DOMAIN analysis
         /\ "block0_count" \in DOMAIN analysis

C5_Witness ==
    /\ entry = "main"
    /\ transactions # <<>>
    /\ NoReferencePoint
    /\ pc = "exit"
    /\ DOMAIN analysis = {"error"}
    /\ output = "Error: Could not determine creation slot"
    /\ IsNone(result)

RECURSIVE SumOver(_, _)
SumOver(events, S) ==
    IF events = <<>> THEN 0
    ELSE (IF Head(events).wallet \in S THEN Head(events).amount ELSE 0)
         + SumOver(Tail(events), S)

\* 25 wallets first buy at offset 0 and no other wallet first buys in the window;
\* they hold 60% of all transferred, the largest of them 12%.
SnipedBy25 ==
    LET events == BuyEvents(Len(sorted_txs))
        window == {w \in BuyersOf(events) : FirstOffset(events, w) = 0}
        total  == SumOver(events, BuyersOf(events))
    IN  /\ Cardinality(window) = 25
        /\ \A w \in BuyersOf(events) \ window : FirstOffset(events, w) > 1
        /\ SumOver(events, window) * 100 = 60 * total
        /\ \E w \in window :
             /\ SumOver(events, {w}) * 100 = 12 * total
             /\ \A v \in window : SumOver(events, {v}) <= SumOver(events, {w})

Deltas(reasons) == [k \in 1..Len(reasons) |-> reasons[k].delta]

\* C7: a launch sniped by 25 wallets at offset 0 holding 60% of the transferred
\* amount, the largest 12%, is scored 95 with the reasons +40, +35, +20 in order.
C7_SnipedLaunchScores95 ==
    pc = "done" /\ SnipedBy25 =>
        /\ "score" \in DOMAIN result
        /\ result.score = 95
        /\ Deltas(result.reasons) = <<40, 35, 20>>
        /\ result.reasons[1].label = "wallets bought in Block 0 (highly coordinated)"
        /\ result.reasons[2].label = "of supply grabbed in Block 0"
        /\ result.reasons[3].label = "Single wallet sniped in Block 0"

\* The case where the largest sniper is not the first wallet seen and buys its
\* 12% in two parts.
C7_Witness ==
    /\ pc = "done"
    /\ SnipedBy25
    /\ analysis.block0_count = 25
    /\ analysis.block0_buyers[1].wallet = "s13"
    /\ analysis.block0_buyers[1].amount = 12
    /\ Len(sorted_txs) > 26
    /\ result.score = 95

\* C8: when no Buy was recorded the total transferred is 0 and the analysis
\* returns its metrics with block0_pct = 0: no error, no undefined quotient.
C8_ZeroTotalGivesZeroPct ==
    pc \in {"returned", "done"} /\ ~NoReferencePoint /\ BuyEvents(Len(sorted_txs)) = <<>> =>
        /\ "error" \notin DOMAIN analysis
        /\ analysis.total_transferred = 0
        /\ analysis.block0_pct = ZeroPct
        /\ analysis.block0_pct.den # 0
        /\ analysis.block0_count = 0

\* Transfers were seen, none of them a Buy.
C8_Witness ==
    /\ pc = "returned"
    /\ \E k \in 1..Len(sorted_txs) : sorted_txs[k].tokenTransfers # <<>>
    /\ BuyEvents(Len(sorted_txs)) = <<>>
    /\ "error" \notin DOMAIN analysis
    /\ analysis.total_transferred = 0
    /\ analysis.block0_pct = ZeroPct


(***************************************************************************)
(* calculate_dev_risk_score (walletscreen.py 294-376).                     *)
(* wallet_age_days and launches_per_week are floats: exact quotients here. *)
(***************************************************************************)
Min(a, b) == IF a < b THEN a ELSE b
Max(a, b) == IF a > b THEN a ELSE b

\* int(x) of a non-negative float x = num/den.
IntOf(r) == r.num \div r.den

\* Lines 320-325.
WalletAgeRule(wallet_age_days) ==
    IF RatLT(wallet_age_days, 7) THEN Fires(30, 30, "Very new wallet")
    ELSE IF RatLT(wallet_age_days, 30) THEN Fires(10, 10, "Newer wallet")
    ELSE Skips

\* Lines 334-341: rug_points = int(rug_rate * 70).
RugPoints(rug_count, total_launches) ==
    IF total_launches > 0 THEN IntOf(Rat(rug_count * 70, total_launches)) ELSE 0

RugRateRule(rug_count, total_launches) ==
    LET rug_points == RugPoints(rug_count, total_launches)
    IN  IF rug_points > 0 THEN Fires(rug_points, rug_points, "confirmed rug rate") ELSE Skips

\* No floor for a confirmed rug.
RugFloorRuleAbsent(score, rug_count) == Skips

\* Lines 344-346: the running score is set to 40; the reason says +40.
RugFloorRule(score, rug_count) ==
    IF rug_count > 0 /\ score < 40
    THEN Fires(40 - score, 40, "(min): Has confirmed rug(s)")
    ELSE Skips

\* Lines 349-352.
DeadTokenRule(dead_count, rug_count) ==
    LET dead_points == Min(30, dead_count * 10)
    IN  IF dead_count > 0 /\ rug_count = 0
        THEN Fires(dead_points, dead_points, "dead token(s)")
        ELSE Skips

\* Lines 355-361.
SerialLauncherRule(launches_per_week) ==
    LET serial_points ==
            Min(20, IntOf(Rat(launches_per_week.num * 5, launches_per_week.den)))
    IN  IF RatGT(launches_per_week, 2)
        THEN Fires(serial_points, serial_points, "Serial launcher")
        ELSE IF RatGT(launches_per_week, 1) THEN Fires(10, 10, "Frequent launcher")
        ELSE Skips

\* The two volume tiers exchanged.
VolumeRuleExchanged(total_launches) ==
    IF total_launches > 10 THEN Fires(10, 10, "Industrial scale")
    ELSE IF total_launches > 5 THEN Fires(15, 15, "High volume")
    ELSE Skips

\* Lines 364-369.
VolumeRule(total_launches) ==
    IF total_launches > 10 THEN Fires(15, 15, "Industrial scale")
    ELSE IF total_launches > 5 THEN Fires(10, 10, "High volume")
    ELSE Skips

\* The clean record asked of more than three launches.
CleanRecordRuleAboveThree(total_launches, bad_count) ==
    IF total_launches > 3 /\ bad_count = 0
    THEN Fires(-15, -15, "Clean track record (3+ tokens, no rugs)")
    ELSE Skips

\* Lines 372-374.
CleanRecordRule(total_launches, bad_count) ==
    IF total_launches >= 3 /\ bad_count = 0
    THEN Fires(-15, -15, "Clean track record (3+ tokens, no rugs)")
    ELSE Skips

\* The override kept to the first day.
IsBurnerWalletFirstDay(wallet_age_days) == RatLT(wallet_age_days, 1)

\* Line 316: the fresh-wallet test.
IsBurnerWallet(wallet_age_days) == RatLT(wallet_age_days, 3)

\* Lines 316-319.
BurnerResult == Returned(95, <<Reason(95, "BURNER WALLET")>>)

\* The first launch left without its floor of 80.
FirstLaunchResultNoFloor(aged) ==
    Returned(Min(100, aged.add),
             aged.reasons \o <<Reason(80, "First-ever token launch (no track record)")>>)

\* Lines 328-331: score = max(score, 80); return min(100, score).
FirstLaunchResult(aged) ==
    Returned(Min(100, Max(aged.add, 80)),
             aged.reasons \o <<Reason(80, "First-ever token launch (no track record)")>>)

calculate_dev_risk_score(wallet_age_days, total_launches, rug_count, dead_count, launches_per_week) ==
    IF IsBurnerWallet(wallet_age_days) THEN BurnerResult
    ELSE LET aged == WalletAgeRule(wallet_age_days)
         IN  IF total_launches = 0 THEN FirstLaunchResult(aged)
             ELSE LET rugs  == RugRateRule(rug_count, total_launches)
                      parts == <<aged, rugs,
                                 RugFloorRule(aged.add + rugs.add, rug_count),
                                 DeadTokenRule(dead_count, rug_count),
                                 SerialLauncherRule(launches_per_week),
                                 VolumeRule(total_launches),
                                 CleanRecordRule(total_launches, rug_count + dead_count)>>
                  IN  Returned(Clamp(TotalOf(parts)), ReasonsOf(parts))

(***************************************************************************)
(* tokenscreen.py.  A free-text name is the sequence of its characters, so *)
(* that lower() and the substring test act on it as in the source.         *)
(***************************************************************************)
UpperLetters == <<"A", "B", "C", "D", "E", "F", "G", "H", "I", "J", "K", "L", "M",
                  "N", "O", "P", "Q", "R", "S", "T", "U", "V", "W", "X", "Y", "Z">>
LowerLetters == <<"a", "b", "c", "d", "e", "f", "g", "h", "i", "j", "k", "l", "m",
                  "n", "o", "p", "q", "r", "s", "t", "u", "v", "w", "x", "y", "z">>

\* str.lower()
LowerChar(c) ==
    LET at == {k \in 1..Len(UpperLetters) : UpperLetters[k] = c}
    IN  IF at = {} THEN c ELSE LowerLetters[CHOOSE k \in at : TRUE]
Lower(str) == [k \in 1..Len(str) |-> LowerChar(str[k])]

\* pattern in str
Contains(str, pattern) ==
    \E k \in 0..(Len(str) - Len(pattern)) :
        \A j \in 1..Len(pattern) : str[k + j] = pattern[j]

\* Lines 91-97.
DEX_PATTERNS == <<
    <<"p", "o", "o", "l">>,
    <<"a", "m", "m">>,
    <<"l", "i", "q", "u", "i", "d", "i", "t", "y">>,
    <<"v", "a", "u", "l", "t">>,
    <<"r", "e", "s", "e", "r", "v", "e">>,
    <<"r", "a", "y", "d", "i", "u", "m">>,
    <<"o", "r", "c", "a">>,
    <<"m", "e", "t", "e", "o", "r", "a">>,
    <<"w", "h", "i", "r", "l", "p", "o", "o", "l">>,
    <<"l", "i", "f", "i", "n", "i", "t", "y">>,
    <<"p", "h", "o", "e", "n", "i", "x">>,
    <<"o", "p", "e", "n", "b", "o", "o", "k">>,
    <<"s", "e", "r", "u", "m">>,
    <<"i", "n", "v", "a", "r", "i", "a", "n", "t">>,
    <<"s", "a", "b", "e", "r">>,
    <<"a", "l", "d", "r", "i", "n">>,
    <<"c", "r", "e", "m", "a">>,
    <<"c", "p", "m", "m">>,
    <<"c", "l", "m", "m">>,
    <<"d", "a", "m", "m">>
>>

\* Lines 100-103.
BURN_ADDRESSES == {"1111111111111111111111111111111111",
                   "1nc1nerator11111111111111111111111111111111"}

\* is_lp_or_dex_account comparing the name as written, without lower().
is_lp_or_dex_account_as_written(account_type, account_name, address) ==
    IF account_type \in {"AMM", "LP", "POOL", "DEX"} THEN TRUE
    ELSE IF address \in BURN_ADDRESSES THEN TRUE
    ELSE \E k \in 1..Len(DEX_PATTERNS) : Contains(account_name, DEX_PATTERNS[k])

\* Lines 106-132.
is_lp_or_dex_account(account_type, account_name, address) ==
    IF account_type \in {"AMM", "LP", "POOL", "DEX"} THEN TRUE
    ELSE IF address \in BURN_ADDRESSES THEN TRUE
    ELSE LET name_lower == Lower(account_name)
         IN  \E k \in 1..Len(DEX_PATTERNS) : Contains(name_lower, DEX_PATTERNS[k])

(***************************************************************************)
(* calculate_custom_score (tokenscreen.py 639-784).                        *)
(* The report and the market record are dicts read with .get: a key may be *)
(* missing.  A value that may be None is Some(v) or None.                  *)
(***************************************************************************)
Some(v) == <<v>>

\* Lines 650-652.
MintAuthorityRule(rugcheck) ==
    IF Get(rugcheck, "mintAuthority", FALSE)
    THEN Fires(30, 30, "Mint authority active (can create more tokens)")
    ELSE Skips

\* Lines 654-656.
FreezeAuthorityRule(rugcheck) ==
    IF Get(rugcheck, "freezeAuthority", FALSE)
    THEN Fires(25, 25, "Freeze authority active (can freeze holders)")
    ELSE Skips

IsMutableRisk(risk) == Contains(Lower(risk.name), <<"m", "u", "t", "a", "b", "l", "e">>)

\* Lines 660-665: the first risk naming mutable metadata, once.
MutableMetadataRule(risks) ==
    IF \E k \in 1..Len(risks) : IsMutableRisk(risks[k])
    THEN Fires(5, 5, "Mutable metadata")
    ELSE Skips

\* Lines 670-679: one listed extension.
ExtensionRule(ext_name) ==
    IF ext_name = "transferHook"
    THEN Fires(25, 25, "TransferHook extension (can block/tax transfers)")
    ELSE IF ext_name = "permanentDelegate"
    THEN Fires(30, 30, "PermanentDelegate (can drain tokens)")
    ELSE IF ext_name = "transferFeeConfig"
    THEN Fires(10, 10, "TransferFee extension")
    ELSE Skips

\* Lines 668-679: every listed extension adds its own delta.
ExtensionRules(extensions) == [k \in 1..Len(extensions) |-> ExtensionRule(extensions[k])]

\* Lines 682-686: dex is None or a dict; "if dex" is false for both None and {}.
LiquidityUsd(rugcheck, dex) ==
    LET liquidity == Get(dex, "liquidity", <<>>)
    IN  IF DOMAIN dex # {} /\ "usd" \in DOMAIN liquidity
        THEN Some(liquidity.usd)
        ELSE Get(rugcheck, "totalMarketLiquidity", Some(0))

\* Lines 688-694.
LiquidityRule(liq_usd) ==
    IF liq_usd = None THEN Skips
    ELSE IF liq_usd[1] < 1000 THEN Fires(20, 20, "Very low liquidity")
    ELSE IF liq_usd[1] < 10000 THEN Fires(10, 10, "Low liquidity")
    ELSE Skips

\* known_accounts.get(addr, {}) and the two .get of lines 705-706.
AccountInfo(known_accounts, addr) ==
    IF addr \in DOMAIN known_accounts THEN known_accounts[addr]
    ELSE [type |-> "", name |-> <<>>]

\* Line 709.
IsInfrastructure(h, known_accounts) ==
    LET info == AccountInfo(known_accounts, h.address)
    IN  is_lp_or_dex_account(info.type, info.name, h.address)

\* No holder left out.
RealHoldersUnfiltered(holders, known_accounts) == holders

\* Lines 701-712.
RECURSIVE RealHolders(_, _)
RealHolders(holders, known_accounts) ==
    IF holders = <<>> THEN <<>>
    ELSE LET rest == RealHolders(Tail(holders), known_accounts)
         IN  IF IsInfrastructure(Head(holders), known_accounts)
             THEN rest
             ELSE <<Head(holders)>> \o rest

RECURSIVE SumPct(_)
SumPct(holders) == IF holders = <<>> THEN 0 ELSE holders[1].pct + SumPct(Tail(holders))

\* Lines 715-722.
ConcentrationRule(real_holders) ==
    LET top_10_real_pct == SumPct(SubSeq(real_holders, 1, Min(10, Len(real_holders))))
    IN  IF real_holders = <<>> THEN Skips
        ELSE IF top_10_real_pct > 80 THEN Fires(20, 20, "Extreme holder concentration")
        ELSE IF top_10_real_pct > 50 THEN Fires(10, 10, "High holder concentration")
        ELSE Skips

\* Lines 725-730.
SingleHolderRule(real_holders) ==
    IF real_holders = <<>> THEN Skips
    ELSE IF real_holders[1].pct > 30 THEN Fires(15, 15, "Single wallet holds")
    ELSE IF real_holders[1].pct > 20 THEN Fires(8, 8, "Single wallet holds")
    ELSE Skips

\* Lines 733-744.
CreatorRule(creator_balance, total_supply) ==
    IF total_supply # 0 /\ creator_balance # 0
    THEN LET creator_pct == Pct(creator_balance, total_supply)
         IN  IF RatGT(creator_pct, 20) THEN Fires(15, 15, "Creator still holds")
             ELSE IF RatGT(creator_pct, 10) THEN Fires(8, 8, "Creator holds")
             ELSE Skips
    ELSE Skips

\* Lines 748-758: one risk of the report; the label of a flag is the name of the
\* risk (Some(name), to tell it from the fixed labels).
RiskFlagRule(risk) ==
    IF IsMutableRisk(risk) THEN Skips
    ELSE IF risk.level \in {"error", "danger"} THEN Fires(15, 15, Some(risk.name))
    ELSE IF risk.level = "warn" THEN Fires(5, 5, Some(risk.name))
    ELSE Skips

\* Lines 747-758.
RiskFlagRules(risks) == [k \in 1..Len(risks) |-> RiskFlagRule(risks[k])]

\* Lines 762-767: a missing or None lpLockedPct counts as 0.
RECURSIVE MaxLpLocked(_)
MaxLpLocked(markets) ==
    IF markets = <<>> THEN 0
    ELSE Max(MaxLpLocked(SubSeq(markets, 1, Len(markets) - 1)),
             Get(Get(markets[Len(markets)], "lp", <<>>), "lpLockedPct", 0))

\* Lines 769-774.
LpLockedRule(max_lp_locked) ==
    IF max_lp_locked >= 90 THEN Fires(-10, -10, "LP locked")
    ELSE IF max_lp_locked >= 50 THEN Fires(-5, -5, "LP locked")
    ELSE Skips

\* The reason appended while the score is left as it was.
CreatorSoldRuleUnapplied(creator_balance) ==
    IF creator_balance = 0 THEN Fires(0, -5, "Creator holds 0 tokens") ELSE Skips

\* Lines 777-779.
CreatorSoldRule(creator_balance) ==
    IF creator_balance = 0 THEN Fires(-5, -5, "Creator holds 0 tokens") ELSE Skips

\* calculate_custom_score with the positive signals evaluated before the risk rules.
calculate_custom_score_signals_first(rugcheck, dex) ==
    LET risks   == Get(rugcheck, "risks", <<>>)
        balance == Get(rugcheck, "creatorBalance", 0)
        supply  == Get(Get(rugcheck, "token", <<>>), "supply", 1)
        real    == RealHolders(Get(rugcheck, "topHolders", <<>>),
                               Get(rugcheck, "knownAccounts", <<>>))
        parts   == <<LpLockedRule(MaxLpLocked(Get(rugcheck, "markets", <<>>))),
                     CreatorSoldRule(balance),
                     MintAuthorityRule(rugcheck),
                     FreezeAuthorityRule(rugcheck),
                     MutableMetadataRule(risks)>>
                   \o ExtensionRules(Get(rugcheck, "token_extensions", <<>>))
                   \o <<LiquidityRule(LiquidityUsd(rugcheck, dex)),
                        ConcentrationRule(real),
                        SingleHolderRule(real),
                        CreatorRule(balance, supply)>>
                   \o RiskFlagRules(risks)
    IN  Returned(Clamp(TotalOf(parts)), ReasonsOf(parts))

calculate_custom_score(rugcheck, dex) ==
    LET risks   == Get(rugcheck, "risks", <<>>)
        balance == Get(rugcheck, "creatorBalance", 0)
        supply  == Get(Get(rugcheck, "token", <<>>), "supply", 1)
        real    == RealHolders(Get(rugcheck, "topHolders", <<>>),
                               Get(rugcheck, "knownAccounts", <<>>))
        parts   == <<MintAuthorityRule(rugcheck),
                     FreezeAuthorityRule(rugcheck),
                     MutableMetadataRule(risks)>>
                   \o ExtensionRules(Get(rugcheck, "token_extensions", <<>>))
                   \o <<LiquidityRule(LiquidityUsd(rugcheck, dex)),
                        ConcentrationRule(real),
                        SingleHolderRule(real),
                        CreatorRule(balance, supply)>>
                   \o RiskFlagRules(risks)
                   \o <<LpLockedRule(MaxLpLocked(Get(rugcheck, "markets", <<>>))),
                        CreatorSoldRule(balance)>>
    IN  Returned(Clamp(TotalOf(parts)), ReasonsOf(parts))

(***************************************************************************)
(* A scorer called on its own arguments.                                   *)
(***************************************************************************)
\* Arguments of calculate_risk_score: an analysis dict; a key may be absent.
BuyerLists ==
    {<<>>} \cup {<<[wallet |-> "w1", amount |-> a]>> : a \in {1, 5, 10, 12}}
           \cup {<<[wallet |-> "w1", amount |-> 12], [wallet |-> "w2", amount |-> 3]>>}

RiskArgs ==
    {[block0_count |-> c, block0_pct |-> Rat(p, 2), block0_buyers |-> b,
      total_transferred |-> t] :
        c \in {0, 2, 3, 4, 5, 9, 10, 19, 20, 25},
        p \in {0, 9, 10, 29, 30, 59, 60, 99, 100, 200},
        b \in BuyerLists,
        t \in {0, 100, 200, 240}}
      \cup {[block0_count |-> c, block0_buyers |-> b] : c \in {0, 5, 25}, b \in BuyerLists}
      \cup {<<>>}

AgeValues == {Rat(n, 2) : n \in {0, 2, 5, 6, 13, 14, 59, 60, 200}}
LaunchRates == {Rat(n, 10) : n \in {0, 10, 11, 20, 21, 25, 40, 45}}

DevArgs ==
    [wallet_age_days : AgeValues, total_launches : 0..MaxLaunches,
     rug_count : 0..MaxRugs, dead_count : 0..MaxDead, launches_per_week : LaunchRates]

\* Arguments of calculate_custom_score: a RugCheck report and a DexScreener pair,
\* each put together from one choice per group of keys (Empty: the keys are missing).
Empty == [k \in {} |-> 0]
Risk(name, level) == [name |-> name, level |-> level]
Holder(address, pct) == [address |-> address, pct |-> pct]
Market(locked) == [lp |-> [lpLockedPct |-> locked]]

MintAuthorityKeys == {Empty, [mintAuthority |-> TRUE]}
FreezeAuthorityKeys == {[freezeAuthority |-> FALSE], [freezeAuthority |-> TRUE]}

RiskKeys ==
    {Empty,
     [risks |-> <<Risk(<<"M", "u", "t", "a", "b", "l", "e", " ", "m", "e", "t", "a", "d", "a", "t", "a">>, "warn")>>],
     [risks |-> <<Risk(<<"C", "o", "p", "y", "c", "a", "t", " ", "t", "o", "k", "e", "n">>, "warn"), Risk(<<"M", "U", "T", "A", "B", "L", "E", " ", "M", "e", "t", "a", "d", "a", "t", "a">>, "danger"),
                  Risk(<<"L", "o", "w", " ", "L", "i", "q", "u", "i", "d", "i", "t", "y">>, "danger"), Risk(<<"T", "o", "p", " ", "1", "0", " ", "h", "o", "l", "d", "e", "r", "s", " ", "h", "i", "g", "h", " ", "o", "w", "n", "e", "r", "s", "h", "i", "p">>, "error"), Risk(<<"L", "a", "r", "g", "e", " ", "A", "m", "o", "u", "n", "t", " ", "o", "f", " ", "L", "P", " ", "U", "n", "l", "o", "c", "k", "e", "d">>, "info")>>]}

ExtensionKeys ==
    {Empty,
     [token_extensions |-> <<"permanentDelegate", "transferFeeConfig">>],
     [token_extensions |-> <<"metadataPointer", "transferHook", "transferHook">>]}

\* <<report keys, DexScreener pair>>
LiquidityReadings ==
    {<<Empty, Empty>>,
     <<[totalMarketLiquidity |-> None], Empty>>,
     <<Empty, [liquidity |-> [usd |-> 1000]]>>,
     <<[totalMarketLiquidity |-> Some(500)], [liquidity |-> [usd |-> 10000]]>>,
     <<[totalMarketLiquidity |-> Some(9999)], [pairAddress |-> "pair"]>>,
     <<[totalMarketLiquidity |-> Some(500)], Empty>>}

Burner == "1nc1nerator11111111111111111111111111111111"

HolderKeys ==
    {Empty,
     [topHolders |-> <<Holder("h1", 31)>>],
     [topHolders |-> <<Holder("pool", 60), Holder("h1", 21), Holder("h2", 5)>>,
      knownAccounts |-> ("pool" :> [type |-> "AMM", name |-> <<"R", "a", "y", "d", "i", "u", "m", " ", "P", "o", "o", "l">>])],
     [topHolders |-> [k \in 1..11 |-> Holder(Snipers[k], 9)]],
     [topHolders |-> <<Holder("auth", 30), Holder(Burner, 19), Holder("h1", 51)>>,
      knownAccounts |-> ("auth" :> [type |-> "", name |-> <<"R", "a", "y", "d", "i", "u", "m", " ", "A", "u", "t", "h", "o", "r", "i", "t", "y", " ", "V", "4">>])],
     [topHolders |-> <<Holder("cex", 25), Holder("pool", 40), Holder("h2", 20)>>,
      knownAccounts |-> ("cex" :> [type |-> "CEX", name |-> <<"B", "i", "n", "a", "n", "c", "e", " ", "H", "o", "t", " ", "W", "a", "l", "l", "e", "t">>]
                          @@ "pool" :> [type |-> "LP", name |-> <<>>])],
     [topHolders |-> <<Holder("pool", 95)>>,
      knownAccounts |-> ("pool" :> [type |-> "", name |-> <<"O", "R", "C", "A">>])]}

CreatorKeys ==
    {Empty,
     [creatorBalance |-> 0, token |-> [supply |-> 100]],
     [creatorBalance |-> 5, token |-> [supply |-> 0]],
     [creatorBalance |-> 11, token |-> [supply |-> 100]],
     [creatorBalance |-> 21, token |-> [supply |-> 100]],
     [creatorBalance |-> 3]}

MarketKeys ==
    {Empty,
     [markets |-> <<Market(95)>>],
     [markets |-> <<Market(50), [lp |-> Empty], Market(10)>>]}

CustomArgs(m, f, r, e, l, h, c, k) ==
    [rugcheck |-> m @@ f @@ r @@ e @@ l[1] @@ h @@ c @@ k, dex |-> l[2]]

Call(fn, args) == [fn |-> fn, args |-> args]

RiskCalls == \E a \in RiskArgs : call = Call("calculate_risk_score", a)

DevCalls == \E a \in DevArgs : call = Call("calculate_dev_risk_score", a)

CustomCalls ==
    \E m \in MintAuthorityKeys, f \in FreezeAuthorityKeys, r \in RiskKeys,
       e \in ExtensionKeys, l \in LiquidityReadings, h \in HolderKeys,
       c \in CreatorKeys, k \in MarketKeys :
        call = Call("calculate_custom_score", CustomArgs(m, f, r, e, l, h, c, k))

\* The variables of the launch analysis, unused while a scorer is called alone.
NoLaunch ==
    /\ entry = "scorer"
    /\ transactions = <<>>
    /\ sorted_txs = <<>>
    /\ creation_slot = 0
    /\ idx = 0
    /\ buyers_by_slot = <<>>
    /\ wallet_purchases = <<>>
    /\ analysis = None
    /\ output = ""

InitScore ==
    /\ RiskCalls \/ DevCalls \/ CustomCalls
    /\ pc = "call"
    /\ result = None
    /\ NoLaunch
    /\ NoHistory

ScoreFrame ==
    /\ UNCHANGED <<entry, transactions, sorted_txs, creation_slot, idx, buyers_by_slot,
                wallet_purchases, analysis, call, output>>
    /\ UNCHANGED history

CallRiskScore ==
    /\ pc = "call"
    /\ call.fn = "calculate_risk_score"
    /\ result' = calculate_risk_score(call.args)
    /\ pc' = "return"
    /\ ScoreFrame

CallDevRiskScore ==
    /\ pc = "call"
    /\ call.fn = "calculate_dev_risk_score"
    /\ result' = calculate_dev_risk_score(call.args.wallet_age_days,
                     call.args.total_launches, call.args.rug_count,
                     call.args.dead_count, call.args.launches_per_week)
    /\ pc' = "return"
    /\ ScoreFrame

CallCustomScore ==
    /\ pc = "call"
    /\ call.fn = "calculate_custom_score"
    /\ result' = calculate_custom_score(call.args.rugcheck, call.args.dex)
    /\ pc' = "return"
    /\ ScoreFrame

NextScore == CallRiskScore \/ CallDevRiskScore \/ CallCustomScore

SpecScore == InitScore /\ [][NextScore]_vars

(***************************************************************************)
(* Properties of the scorers.                                              *)
(***************************************************************************)
Returns(fn) == pc = "return" /\ call.fn = fn

\* C1: each of the three scorers returns, for every input, an integer score s
\* with 0 <= s <= 100.
C1_ScoreInRange ==
    pc = "return" => "score" \in DOMAIN result /\ result.score \in 0..100

NonZero(deltas) == SelectSeq(deltas, LAMBDA d : d # 0)

\* C6: calculate_risk_score returns clamp(count + share + largest + clean) with
\* count +40/+25/+10 for >=20/>=10/>=5 window buyers, share +35/+25/+15/+5 for
\* >=50/>=30/>=15/>=5 percent, largest +20/+10 for >=10/>=5 percent of the total,
\* clean -10 iff count <= 2 and share < 5; one reason for each metric that
\* contributes, in that order.
C6_RuleTable ==
    Returns("calculate_risk_score") /\ "score" \in DOMAIN result =>
        LET a       == call.args
            count   == IF "block0_count" \in DOMAIN a THEN a.block0_count ELSE 0
            share   == IF "block0_pct" \in DOMAIN a THEN a.block0_pct ELSE [num |-> 0, den |-> 1]
            buyers  == IF "block0_buyers" \in DOMAIN a THEN a.block0_buyers ELSE <<>>
            total   == IF "total_transferred" \in DOMAIN a THEN a.total_transferred ELSE 1
            count_delta == CASE count >= 20 -> 40
                             [] count >= 10 /\ count < 20 -> 25
                             [] count >= 5 /\ count < 10 -> 10
                             [] OTHER -> 0
            share_delta == CASE share.num >= 50 * share.den -> 35
                             [] share.num >= 30 * share.den /\ share.num < 50 * share.den -> 25
                             [] share.num >= 15 * share.den /\ share.num < 30 * share.den -> 15
                             [] share.num >= 5 * share.den /\ share.num < 15 * share.den -> 5
                             [] OTHER -> 0
            largest_delta == CASE buyers # <<>> /\ buyers[1].amount * 100 >= 10 * total -> 20
                               [] buyers # <<>> /\ buyers[1].amount * 100 >= 5 * total
                                    /\ buyers[1].amount * 100 < 10 * total -> 10
                               [] OTHER -> 0
            clean_delta == IF count <= 2 /\ share.num < 5 * share.den THEN -10 ELSE 0
            sum == count_delta + share_delta + largest_delta + clean_delta
        IN  /\ result.score = (IF sum < 0 THEN 0 ELSE IF sum > 100 THEN 100 ELSE sum)
            /\ Deltas(result.reasons)
                 = NonZero(<<count_delta, share_delta, largest_delta, clean_delta>>)

\* A middle tier of each metric at once: 10 buyers, 15%, largest 5%.
C6_Witness ==
    /\ Returns("calculate_risk_score")
    /\ "total_transferred" \in DOMAIN call.args
    /\ call.args.block0_count = 10
    /\ call.args.block0_pct = Rat(30, 2)
    /\ call.args.block0_buyers # <<>>
    /\ call.args.block0_buyers[1].amount * 100 = 5 * call.args.total_transferred
    /\ result.score = 50
    /\ Deltas(result.reasons) = <<25, 15, 10>>

\* C9: no scorer fails with a division by zero; with a zero denominator a
\* (score, reasons) result is still returned.
C9_NoDivisionByZero ==
    pc = "return" => "raised" \notin DOMAIN result

\* C10: with wallet_age_days < 3 calculate_dev_risk_score returns 95 and the
\* burner-wallet reason alone, whatever the other arguments are.
C10_FreshWalletOverride ==
    Returns("calculate_dev_risk_score")
      /\ call.args.wallet_age_days.num < 3 * call.args.wallet_age_days.den =>
        /\ result.score = 95
        /\ Len(result.reasons) = 1
        /\ result.reasons[1] = [delta |-> 95, label |-> "BURNER WALLET"]

\* A wallet one day old with no launch before, and with rugs on record.
C10_Witness ==
    /\ Returns("calculate_dev_risk_score")
    /\ call.args.wallet_age_days = Rat(2, 2)
    /\ call.args.total_launches = 0
    /\ call.args.rug_count > 0
    /\ result.score = 95
    /\ Len(result.reasons) = 1

Labels(reasons) == [k \in 1..Len(reasons) |-> reasons[k].label]
AtLeastDays(age, k) == age.num >= k * age.den

\* C11: with wallet_age_days >= 3 and total_launches = 0 calculate_dev_risk_score
\* returns a score in 80..100 and, after the wallet-age reason if there is one,
\* the first-launch reason and nothing else.
C11_FirstLaunchOverride ==
    Returns("calculate_dev_risk_score")
      /\ AtLeastDays(call.args.wallet_age_days, 3) /\ call.args.total_launches = 0 =>
        LET age     == call.args.wallet_age_days
            n       == Len(result.reasons)
            ageText == IF age.num < 7 * age.den THEN <<"Very new wallet">>
                       ELSE IF age.num < 30 * age.den THEN <<"Newer wallet">>
                       ELSE <<>>
        IN  /\ result.score \in 80..100
            /\ Labels(result.reasons)
                 = ageText \o <<"First-ever token launch (no track record)">>
            /\ result.reasons[n].delta = 80

\* A wallet three days old that never launched, called with rugs, dead tokens and
\* a launch rate above 2 a week.
C11_Witness ==
    /\ Returns("calculate_dev_risk_score")
    /\ call.args.wallet_age_days = Rat(6, 2)
    /\ call.args.total_launches = 0
    /\ call.args.rug_count > 0
    /\ call.args.dead_count > 0
    /\ call.args.launches_per_week = Rat(45, 10)
    /\ result.score = 80
    /\ Deltas(result.reasons) = <<30, 80>>

\* C12: with rug_count >= 1 the score calculate_dev_risk_score returns is at
\* least 40.
C12_RugFloor ==
    Returns("calculate_dev_risk_score") /\ call.args.rug_count >= 1 =>
        result.score >= 40

\* One rug in five launches of an old wallet: int(1/5 * 70) = 14 is raised to 40.
C12_Witness ==
    /\ Returns("calculate_dev_risk_score")
    /\ call.args.rug_count = 1
    /\ call.args.total_launches = 5
    /\ AtLeastDays(call.args.wallet_age_days, 30)
    /\ call.args.launches_per_week = Rat(10, 10)
    /\ result.score = 40
    /\ Deltas(result.reasons) = <<14, 40>>

CleanText == "Clean track record (3+ tokens, no rugs)"

\* C13: calculate_dev_risk_score gives -15 for a clean track record, as its last
\* reason, exactly when the wallet is at least 3 days old, total_launches >= 3
\* and rug_count + dead_count = 0; the score is then the clamped sum of the
\* wallet-age, serial-launcher and volume contributions less 15.
C13_CleanTrackRecord ==
    Returns("calculate_dev_risk_score") =>
        LET a       == call.args
            age     == a.wallet_age_days
            rate    == a.launches_per_week
            n       == Len(result.reasons)
            clean   == {k \in 1..n : result.reasons[k].label = CleanText}
            age_delta    == IF age.num < 7 * age.den THEN 30
                            ELSE IF age.num < 30 * age.den THEN 10 ELSE 0
            serial_delta == IF rate.num > 2 * rate.den
                            THEN (IF (rate.num * 5) \div rate.den > 20 THEN 20
                                  ELSE (rate.num * 5) \div rate.den)
                            ELSE IF rate.num > rate.den THEN 10 ELSE 0
            volume_delta == IF a.total_launches > 10 THEN 15
                            ELSE IF a.total_launches > 5 THEN 10 ELSE 0
            others  == age_delta + serial_delta + volume_delta
        IN  /\ clean # {} <=> /\ AtLeastDays(age, 3)
                              /\ a.total_launches >= 3
                              /\ a.rug_count + a.dead_count = 0
            /\ clean # {} =>
                 /\ clean = {n}
                 /\ result.reasons[n].delta = -15
                 /\ result.score = (IF others - 15 < 0 THEN 0 ELSE others - 15)

\* Four launches, no rug, no dead token: a new wallet launching often keeps
\* 30 + 10 - 15.
C13_Witness ==
    /\ Returns("calculate_dev_risk_score")
    /\ call.args.total_launches = 4
    /\ call.args.rug_count = 0
    /\ call.args.dead_count = 0
    /\ call.args.wallet_age_days = Rat(6, 2)
    /\ call.args.launches_per_week = Rat(21, 10)
    /\ Deltas(result.reasons) = <<30, 10, -15>>
    /\ result.score = 25

\* C14: for a report with mint authority active, freeze authority revoked,
\* liquidity 500 and nothing else, calculate_custom_score gives +30 and +20 and
\* the score 50.
C14_MintAuthorityLowLiquidity ==
    Returns("calculate_custom_score")
      /\ DOMAIN call.args.rugcheck = {"mintAuthority", "freezeAuthority", "totalMarketLiquidity"}
      /\ call.args.rugcheck.mintAuthority
      /\ ~call.args.rugcheck.freezeAuthority
      /\ call.args.rugcheck.totalMarketLiquidity = Some(500)
      /\ DOMAIN call.args.dex = {} =>
        /\ result.score = 50
        /\ Deltas(result.reasons) = <<30, 20>>

(***************************************************************************)
(* One tiered rule applied to two values of its metric, lo < hi, the other *)
(* argument of the rule (if it has one) the same for both.                 *)
(***************************************************************************)
\* walletscreen.py lines 316-325: the delta the wallet-age tiers give.
WalletAgeTier(wallet_age_days) ==
    IF IsBurnerWallet(wallet_age_days) THEN BurnerResult.score
    ELSE WalletAgeRule(wallet_age_days).add

RiskTiers == {"block0_count", "block0_pct", "largest_buyer_pct"}
DevTiers == {"wallet_age_days", "dead_count", "launches_per_week", "total_launches"}
CustomTiers == {"liquidity", "top_10_real_pct", "single_holder_pct", "creator_pct"}

\* The values of each metric: both sides of every threshold of its rule.
TierValues(rule) ==
    CASE rule = "block0_count" -> 0..26
      [] rule = "block0_pct" -> {0, 4, 5, 14, 15, 29, 30, 49, 50, 100}
      [] rule = "largest_buyer_pct" -> 0..12
      [] rule = "wallet_age_days" -> {0, 2, 3, 6, 7, 29, 30, 400}
      [] rule = "dead_count" -> 0..MaxDead
      [] rule = "launches_per_week" -> {0, 10, 11, 20, 21, 25, 39, 40, 45, 90}
      [] rule = "total_launches" -> 1..MaxLaunches
      [] rule = "liquidity" -> {0, 500, 999, 1000, 9999, 10000, 50000}
      [] rule = "top_10_real_pct" -> {1, 50, 51, 80, 81, 100}
      [] rule = "single_holder_pct" -> {1, 20, 21, 30, 31, 100}
      [] rule = "creator_pct" -> {0, 1, 10, 11, 20, 21, 100}

\* The delta the rule contributes for the value x of its metric.
TierDelta(rule, x) ==
    CASE rule = "block0_count" -> Block0CountRule(x).add
      [] rule = "block0_pct" -> Block0PctRule(Rat(x, 1)).add
      [] rule = "largest_buyer_pct" -> LargestBuyerRule(Pct(x, 100)).add
      [] rule = "wallet_age_days" -> WalletAgeTier(Rat(x, 1))
      [] rule = "dead_count" -> DeadTokenRule(x, 0).add
      [] rule = "launches_per_week" -> SerialLauncherRule(Rat(x, 10)).add
      [] rule = "total_launches" -> VolumeRule(x).add
      [] rule = "liquidity" -> LiquidityRule(Some(x)).add
      [] rule = "top_10_real_pct" -> ConcentrationRule(<<Holder("h1", x)>>).add
      [] rule = "single_holder_pct" -> SingleHolderRule(<<Holder("h1", x)>>).add
      [] rule = "creator_pct" -> CreatorRule(x, 100).add

InitTier ==
    /\ \E rule \in RiskTiers \cup DevTiers \cup CustomTiers :
         \E lo \in TierValues(rule), hi \in TierValues(rule) :
            /\ lo < hi
            /\ call = Call(rule, [lo |-> lo, hi |-> hi])
    /\ pc = "call"
    /\ result = None
    /\ NoLaunch
    /\ NoHistory

CompareTier(rules) ==
    /\ pc = "call"
    /\ call.fn \in rules
    /\ result' = <<TierDelta(call.fn, call.args.lo), TierDelta(call.fn, call.args.hi)>>
    /\ pc' = "return"
    /\ ScoreFrame

CompareRiskTier == CompareTier(RiskTiers)
CompareDevTier == CompareTier(DevTiers)
CompareCustomTier == CompareTier(CustomTiers)

NextTier == CompareRiskTier \/ CompareDevTier \/ CompareCustomTier

SpecTier == InitTier /\ [][NextTier]_vars

\* C15 as stated: raising the metric of a tiered rule, the rest held fixed, never
\* lowers the delta the rule contributes, for every tiered rule of the three
\* scorers.
C15_TierMonotone ==
    pc = "return" => result[1] <= result[2]

\* C15 amended: the delta never decreases with the metric for the rules whose
\* metric measures risk, and never increases with it for wallet age and
\* liquidity, where the lower value is the riskier one.
C15_TierMonotoneInRisk ==
    pc = "return" =>
        IF call.fn \in {"wallet_age_days", "liquidity"}
        THEN result[1] >= result[2]
        ELSE result[1] <= result[2]

\* Liquidity raised from 500 to 50000: the delta falls from 20 to 0.
C15_Witness ==
    /\ pc = "return"
    /\ call.fn = "liquidity"
    /\ call.args = [lo |-> 500, hi |-> 50000]
    /\ result = <<20, 0>>

(***************************************************************************)
(* classify_token_outcome (tokenscreen.py 174-224, walletscreen.py         *)
(* 229-291).  The two external reads are its arguments here: rugcheck is   *)
(* the RugCheck summary and dex the first DexScreener pair; Empty stands   *)
(* for a read that returned nothing.  Only status and liquidity of the     *)
(* result are kept.                                                        *)
(***************************************************************************)
\* "x or 0" of a reading that may be None.
OrZero(reading) == IF reading = None THEN 0 ELSE reading[1]

Outcome(status, liquidity) == [status |-> status, liquidity |-> liquidity]

\* dex.get("liquidity", {}).get("usd", 0)
LiquidityReading(dex) == Get(Get(dex, "liquidity", Empty), "usd", Some(0))

\* The liquidity read before the rugged flag.
tokenscreen_classify_liquidity_first(rugcheck, dex) ==
    IF DOMAIN dex # {}
    THEN LET liq == OrZero(LiquidityReading(dex))
         IN  Outcome(IF liq < 1000 THEN "DEAD"
                     ELSE IF liq < 5000 THEN "LOW_LIQ" ELSE "ACTIVE",
                     LiquidityReading(dex))
    ELSE IF DOMAIN rugcheck # {} /\ Get(rugcheck, "rugged", FALSE)
    THEN Outcome("RUGGED", None)
    ELSE Outcome("UNKNOWN", None)

\* tokenscreen.py 174-224.
tokenscreen_classify_token_outcome(rugcheck, dex) ==
    IF DOMAIN rugcheck # {} /\ Get(rugcheck, "rugged", FALSE)
    THEN Outcome("RUGGED", None)
    ELSE IF DOMAIN dex # {}
    THEN LET liq == OrZero(LiquidityReading(dex))
         IN  Outcome(IF liq < 1000 THEN "DEAD"
                     ELSE IF liq < 5000 THEN "LOW_LIQ" ELSE "ACTIVE",
                     LiquidityReading(dex))
    ELSE IF DOMAIN rugcheck # {}
    THEN Outcome(IF Get(rugcheck, "score", 100) > 70 THEN "HIGH_RISK" ELSE "UNKNOWN", None)
    ELSE Outcome("UNKNOWN", None)

\* The buckets closed on the right: 1000 is DEAD, 5000 is LOW_LIQ.
walletscreen_classify_closed_buckets(rugcheck, dex) ==
    IF DOMAIN rugcheck # {} /\ Get(rugcheck, "rugged", FALSE)
    THEN Outcome("RUGGED", None)
    ELSE IF DOMAIN dex # {}
    THEN LET liq == OrZero(LiquidityReading(dex))
         IN  Outcome(IF liq <= 1000 THEN "DEAD"
                     ELSE IF liq <= 5000 THEN "LOW_LIQ" ELSE "ACTIVE",
                     LiquidityReading(dex))
    ELSE Outcome("UNKNOWN", None)

\* walletscreen.py 229-291.
walletscreen_classify_token_outcome(rugcheck, dex) ==
    IF DOMAIN rugcheck # {} /\ Get(rugcheck, "rugged", FALSE)
    THEN Outcome("RUGGED", None)
    ELSE IF DOMAIN dex # {}
    THEN LET liq == OrZero(LiquidityReading(dex))
         IN  Outcome(IF liq < 1000 THEN "DEAD"
                     ELSE IF liq < 5000 THEN "LOW_LIQ" ELSE "ACTIVE",
                     LiquidityReading(dex))
    ELSE IF DOMAIN rugcheck # {}
    THEN LET score == Get(rugcheck, "score", 100)
         IN  Outcome(IF score > 70 THEN "HIGH_RISK"
                     ELSE IF score > 40 THEN "CAUTION" ELSE "ACTIVE", None)
    ELSE Outcome("UNKNOWN", None)

\* What the RugCheck summary read can return: nothing, or a report in which the
\* rugged flag and the score may each be missing.
SummaryScores == {0, 40, 41, 70, 71, 100}
Summaries ==
    {Empty, [tokenMeta |-> "meta"], [rugged |-> TRUE], [rugged |-> FALSE]}
      \cup {[rugged |-> r, score |-> s] : r \in BOOLEAN, s \in SummaryScores}
      \cup {[score |-> s] : s \in SummaryScores}

\* What the DexScreener read can return: nothing, or a pair whose liquidity, or
\* its usd value, may be missing or null.
UsdValues == {0, 999, 1000, 4999, 5000, 250000}
Pairs ==
    {Empty, [pairAddress |-> "pair"], [liquidity |-> Empty],
     [liquidity |-> [usd |-> None]]}
      \cup {[liquidity |-> [usd |-> Some(v)]] : v \in UsdValues}

Classifiers == {"tokenscreen.classify_token_outcome", "walletscreen.classify_token_outcome"}

InitClassify ==
    /\ \E fn \in Classifiers, rugcheck \in Summaries, dex \in Pairs :
         call = Call(fn, [rugcheck |-> rugcheck, dex |-> dex])
    /\ pc = "call"
    /\ result = None
    /\ NoLaunch
    /\ NoHistory

CallTokenscreenClassify ==
    /\ pc = "call"
    /\ call.fn = "tokenscreen.classify_token_outcome"
    /\ result' = tokenscreen_classify_token_outcome(call.args.rugcheck, call.args.dex)
    /\ pc' = "return"
    /\ ScoreFrame

CallWalletscreenClassify ==
    /\ pc = "call"
    /\ call.fn = "walletscreen.classify_token_outcome"
    /\ result' = walletscreen_classify_token_outcome(call.args.rugcheck, call.args.dex)
    /\ pc' = "return"
    /\ ScoreFrame

NextClassify == CallTokenscreenClassify \/ CallWalletscreenClassify

SpecClassify == InitClassify /\ [][NextClassify]_vars

FlaggedRugged(rugcheck) == "rugged" \in DOMAIN rugcheck /\ rugcheck.rugged
HasPair(dex) == DOMAIN dex # {}

\* C16: in both implementations a report with the rugged flag set gives RUGGED
\* whatever the DexScreener read would return, and no liquidity is recorded.
C16_RuggedPrecedence ==
    pc = "return" /\ FlaggedRugged(call.args.rugcheck) =>
        /\ result.status = "RUGGED"
        /\ result.liquidity = None

\* Rugged with a pair holding 250000 of liquidity, in walletscreen.
C16_Witness ==
    /\ pc = "return"
    /\ call.fn = "walletscreen.classify_token_outcome"
    /\ FlaggedRugged(call.args.rugcheck)
    /\ call.args.dex = [liquidity |-> [usd |-> Some(250000)]]
    /\ result.status = "RUGGED"

\* C17: in both implementations, not flagged rugged and with a pair read, the
\* status is DEAD below 1000, LOW_LIQ from 1000 to below 5000 and ACTIVE from
\* 5000; a pair without a liquidity value counts as 0 and is DEAD.
C17_LiquidityBuckets ==
    pc = "return" /\ ~FlaggedRugged(call.args.rugcheck) /\ HasPair(call.args.dex) =>
        LET dex == call.args.dex
            usd == IF "liquidity" \in DOMAIN dex /\ "usd" \in DOMAIN dex.liquidity
                      /\ dex.liquidity.usd # None
                   THEN dex.liquidity.usd[1] ELSE 0
        IN  result.status = CASE usd < 1000 -> "DEAD"
                              [] usd >= 1000 /\ usd < 5000 -> "LOW_LIQ"
                              [] usd >= 5000 -> "ACTIVE"

\* Exactly 1000 with a report scoring 100 and not rugged: LOW_LIQ, in walletscreen.
C17_Witness ==
    /\ pc = "return"
    /\ call.fn = "walletscreen.classify_token_outcome"
    /\ call.args.rugcheck = [rugged |-> FALSE, score |-> 100]
    /\ call.args.dex = [liquidity |-> [usd |-> Some(1000)]]
    /\ result.status = "LOW_LIQ"
    /\ result.liquidity = Some(1000)

\* C18: in both implementations, not rugged and without a pair, a report with a
\* score gives HIGH_RISK above 70 and UNKNOWN otherwise; with neither read
\* available the status is UNKNOWN; the status is always one of ACTIVE, LOW_LIQ,
\* DEAD, RUGGED, HIGH_RISK, UNKNOWN.
C18_FallbackClassification ==
    pc = "return" =>
        /\ result.status \in {"ACTIVE", "LOW_LIQ", "DEAD", "RUGGED", "HIGH_RISK", "UNKNOWN"}
        /\ ~FlaggedRugged(call.args.rugcheck) /\ ~HasPair(call.args.dex) =>
             IF "score" \in DOMAIN call.args.rugcheck
             THEN result.status = (IF call.args.rugcheck.score > 70 THEN "HIGH_RISK"
                                   ELSE "UNKNOWN")
             ELSE DOMAIN call.args.rugcheck = {} => result.status = "UNKNOWN"

(***************************************************************************)
(* Wallet history: find_token_creations and main of walletscreen.py, the   *)
(* created_mints loop and the launch check of analyze_royalty_recipient in *)
(* tokenscreen.py.                                                         *)
(*                                                                         *)
(* A transaction keeps the fields the two folds read: type, timestamp, the *)
(* mints of its tokenTransfers ("" for a transfer without one), the mints  *)
(* of the tokenBalanceChanges of each accountData entry, and the data and  *)
(* accounts of its instructions.                                           *)
(***************************************************************************)
MaxTxs == 2           \* transactions in one fetched history
ClassifyCap == 10     \* tokenscreen.py line 356: created_mints[:10]
Day == 86400          \* walletscreen.py line 149

Week == 7 * 24 * 60 * 60

MintA == "A2345678901234567890123456789012"
MintB == "B2345678901234567890123456789012345678901234"
MintC == "C234567890123456789012345678901234567890"
ShortId == "S234567890123456789012345678901"
LongId == "L23456789012345678901234567890123456789012345"
token_mint == "T2345678901234567890123456789012345678901"

\* The mints of a serial launcher.
LaunchedMints ==
    <<"m01xxxxxxxxxxxxxxxxxxxxxxxxxxxxx", "m02xxxxxxxxxxxxxxxxxxxxxxxxxxxxx", "m03xxxxxxxxxxxxxxxxxxxxxxxxxxxxx",
      "m04xxxxxxxxxxxxxxxxxxxxxxxxxxxxx", "m05xxxxxxxxxxxxxxxxxxxxxxxxxxxxx", "m06xxxxxxxxxxxxxxxxxxxxxxxxxxxxx",
      "m07xxxxxxxxxxxxxxxxxxxxxxxxxxxxx", "m08xxxxxxxxxxxxxxxxxxxxxxxxxxxxx", "m09xxxxxxxxxxxxxxxxxxxxxxxxxxxxx",
      "m10xxxxxxxxxxxxxxxxxxxxxxxxxxxxx", "m11xxxxxxxxxxxxxxxxxxxxxxxxxxxxx", "m12xxxxxxxxxxxxxxxxxxxxxxxxxxxxx">>

InitializeMintText == <<"I", "n", "i", "t", "i", "a", "l", "i", "z", "e", "M", "i", "n", "t">>
InitializeMint2 == InitializeMintText \o <<"2">>
TransferText == <<"T", "r", "a", "n", "s", "f", "e", "r">>

Instruction(data, accounts) == [data |-> data, accounts |-> accounts]

HistoryTx(type, transfers, accountData, instructions) ==
    [type |-> type, timestamp |-> 0, tokenTransfers |-> transfers,
     accountData |-> accountData, instructions |-> instructions]

HistoryTxShapes ==
    {HistoryTx("CREATE", <<MintA>>, <<>>, <<>>),
     HistoryTx("TOKEN_MINT", <<ShortId, MintB>>, <<>>, <<>>),
     HistoryTx("CREATE", <<>>, <<<<>>, <<LongId, MintC>>>>, <<>>),
     HistoryTx("CREATE", <<token_mint>>, <<>>, <<>>),
     HistoryTx("COMPRESSED_NFT_MINT", <<MintA>>, <<>>,
               <<Instruction(InitializeMintText, <<MintB>>)>>),
     HistoryTx("CREATE_MERKLE_TREE", <<MintC>>, <<>>,
               <<Instruction(InitializeMintText, <<MintB>>)>>),
     HistoryTx("TRANSFER", <<MintA>>, <<>>,
               <<Instruction(TransferText, <<MintB>>),
                 Instruction(InitializeMint2, <<MintC, MintA>>)>>),
     HistoryTx("TRANSFER", <<>>, <<>>, <<Instruction(InitializeMintText, <<LongId>>)>>),
     HistoryTx("TRANSFER", <<MintA>>, <<>>, <<>>),
     HistoryTx("CREATE", <<"">>, <<>>, <<Instruction(InitializeMintText, <<>>)>>),
     HistoryTx("TOKEN_MINT", <<MintA>>, <<>>, <<Instruction(InitializeMintText, <<MintA>>)>>),
     HistoryTx("UNKNOWN", <<token_mint>>, <<>>,
               <<Instruction(InitializeMintText, <<token_mint>>)>>)}

\* 0: a transaction without a timestamp.
HistoryTimes == {0, Day, 9 * Day}

HistoryTxValues == {[s EXCEPT !.timestamp = t] : s \in HistoryTxShapes, t \in HistoryTimes}

\* n launches a day apart, as fetched: oldest first or newest first.
SerialHistory(n, newestFirst) ==
    [k \in 1..n |->
        LET j == IF newestFirst THEN n + 1 - k ELSE k
        IN  [HistoryTx("CREATE", <<LaunchedMints[j]>>, <<>>, <<>>) EXCEPT !.timestamp = j * Day]]

SerialHistories ==
    {SerialHistory(n, newestFirst) :
        n \in {ClassifyCap, ClassifyCap + 1, ClassifyCap + 2}, newestFirst \in BOOLEAN}

Histories == SeqsUpTo(HistoryTxValues, MaxTxs) \cup SerialHistories

\* tokenscreen.py 227-229 and walletscreen.py 132-134.
is_valid_solana_address(address) == Len(address) >= 32 /\ Len(address) <= 44

\* The first mint of the list that is present and valid, "" (None) without one.
RECURSIVE FirstValidMint(_)
FirstValidMint(mints) ==
    IF mints = <<>> THEN ""
    ELSE IF Head(mints) # "" /\ is_valid_solana_address(Head(mints)) THEN Head(mints)
    ELSE FirstValidMint(Tail(mints))

RECURSIVE Flatten(_)
Flatten(lists) == IF lists = <<>> THEN <<>> ELSE Head(lists) \o Flatten(Tail(lists))

\* tokenscreen.py 232-247 and walletscreen.py 211-226.
extract_mint_from_tx(tx) ==
    IF FirstValidMint(tx.tokenTransfers) # "" THEN FirstValidMint(tx.tokenTransfers)
    ELSE FirstValidMint(Flatten(tx.accountData))

\* The types of the alphabet whose upper case contains MERKLE (line 170).
MerkleTypes == {"CREATE_MERKLE_TREE"}

CreatedToken(mint, tx, type) == [mint |-> mint, timestamp |-> tx.timestamp, type |-> type]

AddCreated(acc, entry_) == [created |-> Append(acc.created, entry_),
                            seen |-> acc.seen \cup {entry_.mint}]

\* walletscreen.py 191-204.
RECURSIVE FoldInstructions(_, _, _)
FoldInstructions(acc, instructions, tx) ==
    IF instructions = <<>> THEN acc
    ELSE LET instr == Head(instructions)
             next  ==
                 IF /\ Contains(instr.data, InitializeMintText)
                    /\ instr.accounts # <<>>
                    /\ instr.accounts[1] \notin acc.seen
                    /\ is_valid_solana_address(instr.accounts[1])
                 THEN AddCreated(acc, CreatedToken(instr.accounts[1], tx, "InitializeMint"))
                 ELSE acc
         IN  FoldInstructions(next, Tail(instructions), tx)

\* walletscreen.py 166-204: one transaction of the loop.
CreationStep(acc, tx) ==
    IF tx.type \in MerkleTypes THEN acc
    ELSE IF tx.type = "COMPRESSED_NFT_MINT" THEN acc
    ELSE LET mint  == extract_mint_from_tx(tx)
             typed == IF tx.type \in {"TOKEN_MINT", "CREATE"}
                         /\ mint # "" /\ mint \notin acc.seen
                      THEN AddCreated(acc, CreatedToken(mint, tx, tx.type))
                      ELSE acc
         IN  FoldInstructions(typed, tx.instructions, tx)

RECURSIVE FoldCreations(_, _)
FoldCreations(acc, txs) ==
    IF txs = <<>> THEN acc ELSE FoldCreations(CreationStep(acc, Head(txs)), Tail(txs))

\* walletscreen.py 152-208.
find_token_creations(txs) ==
    SortByTimestamp(FoldCreations([created |-> <<>>, seen |-> {}], txs).created)

\* "InitializeMint" in json.dumps(tx): of the fields kept, only the data of an
\* instruction can hold it.
MentionsInitializeMint(tx) ==
    \E k \in 1..Len(tx.instructions) : Contains(tx.instructions[k].data, InitializeMintText)

\* tokenscreen.py 304-309: one transaction of the loop.
RoyaltyStep(acc, tx) ==
    LET mint == extract_mint_from_tx(tx)
    IN  IF /\ tx.type \in {"TOKEN_MINT", "CREATE"} \/ MentionsInitializeMint(tx)
           /\ mint # "" /\ mint \notin acc.seen /\ mint # token_mint
        THEN [created |-> Append(acc.created, mint), seen |-> acc.seen \cup {mint}]
        ELSE acc

RECURSIVE FoldRoyalty(_, _)
FoldRoyalty(acc, txs) ==
    IF txs = <<>> THEN acc ELSE FoldRoyalty(RoyaltyStep(acc, Head(txs)), Tail(txs))

\* tokenscreen.py 279-309.
CreatedMints(txs) == FoldRoyalty([created |-> <<>>, seen |-> {}], txs).created

(***************************************************************************)
(* What the RugCheck and DexScreener reads return for a mint in one run.   *)
(***************************************************************************)
Worlds == {"rugged", "dead", "unlisted", "mixed"}

Reading(rugcheck, dex) == [rugcheck |-> rugcheck, dex |-> dex]

RuggedReading == Reading([rugged |-> TRUE, score |-> 100], [liquidity |-> [usd |-> Some(250000)]])
DeadReading == Reading([rugged |-> FALSE, score |-> 41], [liquidity |-> [usd |-> Some(0)]])
ActiveReading == Reading([rugged |-> FALSE, score |-> 0], [liquidity |-> [usd |-> Some(250000)]])
NoReading == Reading(Empty, Empty)

Readings(world, mint) ==
    CASE world = "rugged" -> RuggedReading
      [] world = "dead" -> DeadReading
      [] world = "unlisted" -> NoReading
      [] world = "mixed" ->
            IF mint \in {MintA, LaunchedMints[1], LaunchedMints[12]} THEN RuggedReading
            ELSE IF mint \in {MintB, LaunchedMints[2], LaunchedMints[3]} THEN DeadReading
            ELSE ActiveReading

\* The clock read by get_wallet_age_days (walletscreen.py line 147).
Clock == {10 * Day, 12 * Day + Day \div 2}

InitHistory ==
    /\ entry \in {"walletscreen", "royalty"}
    /\ transactions \in Histories
    /\ market \in Worlds
    /\ pc = "fetch"
    /\ age_days = None
    /\ created_tokens = <<>>
    /\ created_mints = <<>>
    /\ token_outcomes = <<>>
    /\ launch_outcomes = None
    /\ classified = <<>>
    /\ previous = None
    /\ sorted_txs = <<>>
    /\ creation_slot = 0
    /\ idx = 0
    /\ buyers_by_slot = <<>>
    /\ wallet_purchases = <<>>
    /\ analysis = None
    /\ call = None
    /\ result = None
    /\ output = ""

LaunchFrame ==
    UNCHANGED <<entry, transactions, sorted_txs, creation_slot, idx, buyers_by_slot,
                wallet_purchases, analysis, call, market, previous>>

\* walletscreen main, lines 587-590.
WsFetch ==
    /\ entry = "walletscreen"
    /\ pc = "fetch"
    /\ IF transactions = <<>>
       THEN /\ output' = "Error: Could not fetch transaction history"
            /\ pc' = "exit"
       ELSE /\ pc' = "age"
            /\ UNCHANGED output
    /\ LaunchFrame
    /\ UNCHANGED <<age_days, created_tokens, created_mints, token_outcomes,
                   launch_outcomes, classified, result>>

RECURSIVE MinTimestamp(_)
MinTimestamp(txs) ==
    IF Len(txs) = 1 THEN txs[1].timestamp
    ELSE Min(txs[1].timestamp, MinTimestamp(Tail(txs)))

\* walletscreen.py 137-149, called with the list main fetched (not empty).
get_wallet_age_days(txs, now) ==
    LET oldest_timestamp == MinTimestamp(txs)
    IN  IF oldest_timestamp = 0 THEN Rat(0, 1)
        ELSE Rat(now - oldest_timestamp, Day)

\* walletscreen main, line 595.
WsAge ==
    /\ entry = "walletscreen"
    /\ pc = "age"
    /\ \E now \in Clock : age_days' = get_wallet_age_days(transactions, now)
    /\ pc' = "find"
    /\ LaunchFrame
    /\ UNCHANGED <<created_tokens, created_mints, token_outcomes, launch_outcomes,
                   classified, result, output>>

\* walletscreen main, line 599.
WsFind ==
    /\ entry = "walletscreen"
    /\ pc = "find"
    /\ created_tokens' = find_token_creations(transactions)
    /\ pc' = "classify"
    /\ LaunchFrame
    /\ UNCHANGED <<age_days, created_mints, token_outcomes, launch_outcomes,
                   classified, result, output>>

\* walletscreen main, lines 604-610: one token of the loop.
WsClassify ==
    /\ entry = "walletscreen"
    /\ pc = "classify"
    /\ Len(token_outcomes) < Len(created_tokens)
    /\ LET token == created_tokens[Len(token_outcomes) + 1]
           read  == Readings(market, token.mint)
       IN  /\ classified' = Append(classified, token.mint)
           /\ token_outcomes' =
                Append(token_outcomes,
                       [token   |-> token,
                        outcome |-> walletscreen_classify_token_outcome(read.rugcheck, read.dex)])
    /\ LaunchFrame
    /\ UNCHANGED <<pc, age_days, created_tokens, created_mints, launch_outcomes,
                   result, output>>

CountStatus(outcomes, status) ==
    Cardinality({k \in 1..Len(outcomes) : outcomes[k].outcome.status = status})

\* walletscreen main, lines 613-619.
LaunchesPerWeek(tokens) ==
    IF Len(tokens) >= 2
    THEN LET span == tokens[Len(tokens)].timestamp - tokens[1].timestamp
         IN  IF span > Week THEN Rat(Len(tokens) * Week, span) ELSE Rat(Len(tokens), 1)
    ELSE Rat(0, 1)

\* walletscreen main, lines 612-643.
WsScore ==
    /\ entry = "walletscreen"
    /\ pc = "classify"
    /\ Len(token_outcomes) = Len(created_tokens)
    /\ result' = calculate_dev_risk_score(age_days, Len(created_tokens),
                                          CountStatus(token_outcomes, "RUGGED"),
                                          CountStatus(token_outcomes, "DEAD"),
                                          LaunchesPerWeek(created_tokens))
    /\ output' = "report"
    /\ pc' = "done"
    /\ LaunchFrame
    /\ UNCHANGED <<age_days, created_tokens, created_mints, token_outcomes,
                   launch_outcomes, classified>>

\* analyze_royalty_recipient, lines 267-273.
RrFetch ==
    /\ entry = "royalty"
    /\ pc = "fetch"
    /\ IF transactions = <<>>
       THEN /\ output' = "*Could not fetch transaction history*"
            /\ pc' = "done"
       ELSE /\ pc' = "find"
            /\ UNCHANGED output
    /\ LaunchFrame
    /\ UNCHANGED <<age_days, created_tokens, created_mints, token_outcomes,
                   launch_outcomes, classified, result>>

LaunchOutcomes(active, dead, rugged, unknown) ==
    [active |-> active, dead |-> dead, rugged |-> rugged, unknown |-> unknown]

\* analyze_royalty_recipient, lines 276-354.
RrFind ==
    /\ entry = "royalty"
    /\ pc = "find"
    /\ created_mints' = CreatedMints(transactions)
    /\ launch_outcomes' = LaunchOutcomes(0, 0, 0, 0)
    /\ pc' = "classify"
    /\ LaunchFrame
    /\ UNCHANGED <<age_days, created_tokens, token_outcomes, classified, result, output>>

\* analyze_royalty_recipient, lines 359-366.
CountOutcome(counts, status) ==
    IF status = "ACTIVE" THEN [counts EXCEPT !.active = @ + 1]
    ELSE IF status \in {"DEAD", "LOW_LIQ"} THEN [counts EXCEPT !.dead = @ + 1]
    ELSE IF status = "RUGGED" THEN [counts EXCEPT !.rugged = @ + 1]
    ELSE [counts EXCEPT !.unknown = @ + 1]

\* created_mints[:10]
Checked(mints) == SubSeq(mints, 1, Min(ClassifyCap, Len(mints)))

\* analyze_royalty_recipient, lines 355-366: one mint of the loop.
RrClassify ==
    /\ entry = "royalty"
    /\ pc = "classify"
    /\ Len(classified) < Len(Checked(created_mints))
    /\ LET mint == Checked(created_mints)[Len(classified) + 1]
           read == Readings(market, mint)
       IN  /\ classified' = Append(classified, mint)
           /\ launch_outcomes' =
                CountOutcome(launch_outcomes,
                             tokenscreen_classify_token_outcome(read.rugcheck, read.dex).status)
    /\ LaunchFrame
    /\ UNCHANGED <<pc, age_days, created_tokens, created_mints, token_outcomes,
                   result, output>>

\* analyze_royalty_recipient, lines 368 to its return.
RrReport ==
    /\ entry = "royalty"
    /\ pc = "classify"
    /\ Len(classified) = Len(Checked(created_mints))
    /\ output' = "report"
    /\ pc' = "done"
    /\ LaunchFrame
    /\ UNCHANGED <<age_days, created_tokens, created_mints, token_outcomes,
                   launch_outcomes, classified, result>>

NextHistory ==
    \/ WsFetch \/ WsAge \/ WsFind \/ WsClassify \/ WsScore
    \/ RrFetch \/ RrFind \/ RrClassify \/ RrReport

SpecHistory == InitHistory /\ [][NextHistory]_vars

\* C19: in every run of walletscreen main and of analyze_royalty_recipient,
\* classify_token_outcome is called for at most 10 mints.
C19_ClassificationCap == Len(classified) <= 10

MintsOf(tokens) == [k \in 1..Len(tokens) |-> tokens[k].mint]
NoRepeat(s) == \A j, k \in 1..Len(s) : s[j] = s[k] => j = k
AllValid(s) == \A k \in 1..Len(s) : Len(s[k]) >= 32 /\ Len(s[k]) <= 44

\* The timestamp of the transaction a mint of created_mints was taken from.
TakenAt(mint) ==
    LET from == {k \in 1..Len(transactions) : extract_mint_from_tx(transactions[k]) = mint}
    IN  transactions[CHOOSE k \in from : \A j \in from : k <= j].timestamp

\* C20: the created mints of a wallet (created_tokens of walletscreen,
\* created_mints of tokenscreen) hold each mint once, are in ascending order of
\* timestamp, hold only identifiers of 32 to 44 characters and, in tokenscreen,
\* never the mint under analysis.
C20_CreatedMintsFold ==
    /\ entry = "walletscreen" /\ pc \in {"classify", "done"} =>
         /\ NoRepeat(MintsOf(created_tokens))
         /\ AllValid(MintsOf(created_tokens))
         /\ \A j, k \in 1..Len(created_tokens) :
              j < k => created_tokens[j].timestamp <= created_tokens[k].timestamp
    /\ entry = "royalty" /\ pc = "classify" =>
         /\ NoRepeat(created_mints)
         /\ AllValid(created_mints)
         /\ \A k \in 1..Len(created_mints) : created_mints[k] # token_mint
         /\ \A j, k \in 1..Len(created_mints) :
              j < k => TakenAt(created_mints[j]) <= TakenAt(created_mints[k])

(***************************************************************************)
(* is_lp_or_dex_account called on its own arguments.                       *)
(***************************************************************************)
AccountTypes == {"AMM", "LP", "POOL", "DEX", "", "amm", "Pool", "CEX"}

AccountNames ==
    {<<>>,
     <<"R", "a", "y", "d", "i", "u", "m", " ", "P", "o", "o", "l">>,
     <<"O", "R", "C", "A">>,
     <<"S", "c", "a", "m", "m", "e", "r">>,
     <<"B", "i", "n", "a", "n", "c", "e", " ", "H", "o", "t", " ", "W", "a", "l", "l", "e", "t">>,
     <<"F", "o", "r", "e", "c", "a", "s", "t", "e", "r">>,
     <<"P", "o", "l">>,
     <<"D", "A", "M", "M", " ", "v", "2">>,
     <<"T", "e", "a", "m", " ", "V", "a", "u", "l", "t">>,
     <<"p", "o", "o", " ", "l">>,
     <<"T", "r", "e", "a", "s", "u", "r", "y">>}

AccountAddresses ==
    BURN_ADDRESSES \cup {"", "h1", "111111111111111111111111111111111",
                         "1nc1nerator11111111111111111111111111111111x"}

InitFilter ==
    /\ \E t \in AccountTypes, n \in AccountNames, a \in AccountAddresses :
         call = Call("is_lp_or_dex_account",
                     [account_type |-> t, account_name |-> n, address |-> a])
    /\ pc = "call"
    /\ result = None
    /\ NoLaunch
    /\ NoHistory

CallFilter ==
    /\ pc = "call"
    /\ call.fn = "is_lp_or_dex_account"
    /\ result' = is_lp_or_dex_account(call.args.account_type, call.args.account_name,
                                      call.args.address)
    /\ pc' = "return"
    /\ ScoreFrame

NextFilter == CallFilter

SpecFilter == InitFilter /\ [][NextFilter]_vars

\* The fragments of the fixed list, and the names one of them is cut out of.
NameFragments == {DEX_PATTERNS[k] : k \in 1..Len(DEX_PATTERNS)}
HoldsFragment(name) ==
    \E i, j \in 1..Len(name) : i <= j /\ SubSeq(Lower(name), i, j) \in NameFragments

\* C21: is_lp_or_dex_account returns true exactly when the type is one of AMM,
\* LP, POOL, DEX, or the address is a burn address, or the lower-cased name
\* holds one of the DEX name fragments; it returns false for everything else.
C21_EntityFilter ==
    pc = "return" /\ call.fn = "is_lp_or_dex_account" =>
        result = (\/ call.args.account_type \in {"AMM", "LP", "POOL", "DEX"}
                  \/ call.args.address \in {"1111111111111111111111111111111111",
                                            "1nc1nerator11111111111111111111111111111111"}
                  \/ HoldsFragment(call.args.account_name))

\* A name recognised only after lower-casing, with no type and no burn address.
C21_Witness ==
    /\ pc = "return"
    /\ call.fn = "is_lp_or_dex_account"
    /\ call.args.account_type = ""
    /\ call.args.address = "h1"
    /\ call.args.account_name = <<"O", "R", "C", "A">>
    /\ result = TRUE

(***************************************************************************)
(* The same tool run a second time on the same records and the same        *)
(* external readings.  A run is a new process (main) or a new call (the    *)
(* scorer): it starts from the state a first run starts from.              *)
(***************************************************************************)
InitRerun ==
    \/ Init /\ entry = "main"
    \/ InitHistory /\ entry = "walletscreen"
    \/ InitScore /\ call.fn = "calculate_custom_score"

Finished ==
    \/ entry = "main" /\ pc = "done"
    \/ entry = "walletscreen" /\ pc = "done"
    \/ entry = "scorer" /\ pc = "return"

Rerun ==
    /\ previous = None
    /\ Finished
    /\ previous' = Some(result)
    /\ pc' = CASE entry = "main" -> "main"
               [] entry = "walletscreen" -> "fetch"
               [] entry = "scorer" -> "call"
    /\ result' = None
    /\ output' = ""
    /\ sorted_txs' = <<>>
    /\ creation_slot' = 0
    /\ idx' = 0
    /\ buyers_by_slot' = <<>>
    /\ wallet_purchases' = <<>>
    /\ analysis' = None
    /\ age_days' = None
    /\ created_tokens' = <<>>
    /\ token_outcomes' = <<>>
    /\ classified' = <<>>
    /\ UNCHANGED <<entry, transactions, call, market, created_mints, launch_outcomes>>

NextRerun ==
    \/ Next
    \/ WsFetch \/ WsAge \/ WsFind \/ WsClassify \/ WsScore
    \/ CallCustomScore
    \/ Rerun

SpecRerun == InitRerun /\ [][NextRerun]_vars

\* C22: a second run of a tool on the same records and the same external
\* readings returns the score and the reasons of the first run.
C22_Deterministic == previous # None /\ Finished => result = previous[1]

(***************************************************************************)
(* The effect of folding one record, stated on the record's transfers.     *)
(***************************************************************************)
AmountOf(wp, w) == IF HasWallet(wp, w) THEN wp[WalletIndex(wp, w)].amount ELSE 0
BucketSize(bbs, d) == IF d \in DOMAIN bbs THEN Len(bbs[d]) ELSE 0

\* A transfer of the analysed mint with a destination and a positive amount.
Counted(t) == t.mint = TargetMint /\ t.toUserAccount # NoWallet /\ t.tokenAmount > 0

RECURSIVE SumTo(_, _)
SumTo(transfers, w) ==
    IF transfers = <<>> THEN 0
    ELSE (IF Counted(Head(transfers)) /\ Head(transfers).toUserAccount = w
          THEN Head(transfers).tokenAmount ELSE 0) + SumTo(Tail(transfers), w)

BuyExtractionStep ==
    idx' = idx + 1 =>
        LET tx        == sorted_txs[idx + 1]
            offset    == tx.slot - creation_slot
            counted   == SelectSeq(tx.tokenTransfers, Counted)
            receivers == {tx.tokenTransfers[k].toUserAccount : k \in 1..Len(tx.tokenTransfers)}
            known     == {wallet_purchases'[k].wallet : k \in 1..Len(wallet_purchases')}
        IN  /\ \A w \in receivers \cup known :
                 AmountOf(wallet_purchases', w)
                   = AmountOf(wallet_purchases, w) + SumTo(tx.tokenTransfers, w)
            /\ \A d \in DOMAIN buyers_by_slot' \cup {offset} :
                 BucketSize(buyers_by_slot', d)
                   = BucketSize(buyers_by_slot, d) + (IF d = offset THEN Len(counted) ELSE 0)
            /\ counted = <<>> =>
                 /\ wallet_purchases' = wallet_purchases
                 /\ buyers_by_slot' = buyers_by_slot

RuleRank(label) ==
    IF Len(label) = 1 THEN 9
    ELSE CASE label = "wallets bought in Block 0 (highly coordinated)" -> 1
           [] label = "wallets bought in Block 0 (suspicious)" -> 1
           [] label = "wallets bought in Block 0" -> 1
           [] label = "of supply grabbed in Block 0" -> 2
           [] label = "Single wallet sniped in Block 0" -> 3
           [] label = "Clean launch (minimal Block 0 activity)" -> 4
           [] label = "BURNER WALLET" -> 1
           [] label = "Very new wallet" -> 1
           [] label = "Newer wallet" -> 1
           [] label = "First-ever token launch (no track record)" -> 2
           [] label = "confirmed rug rate" -> 2
           [] label = "(min): Has confirmed rug(s)" -> 3
           [] label = "dead token(s)" -> 4
           [] label = "Serial launcher" -> 5
           [] label = "Frequent launcher" -> 5
           [] label = "Industrial scale" -> 6
           [] label = "High volume" -> 6
           [] label = "Clean track record (3+ tokens, no rugs)" -> 7
           [] label = "Mint authority active (can create more tokens)" -> 1
           [] label = "Freeze authority active (can freeze holders)" -> 2
           [] label = "Mutable metadata" -> 3
           [] label = "TransferHook extension (can block/tax transfers)" -> 4
           [] label = "PermanentDelegate (can drain tokens)" -> 4
           [] label = "TransferFee extension" -> 4
           [] label = "Very low liquidity" -> 5
           [] label = "Low liquidity" -> 5
           [] label = "Extreme holder concentration" -> 6
           [] label = "High holder concentration" -> 6
           [] label = "Single wallet holds" -> 7
           [] label = "Creator still holds" -> 8
           [] label = "Creator holds" -> 8
           [] label = "LP locked" -> 10
           [] label = "Creator holds 0 tokens" -> 11

\* The rules that run once for each element of a list: extensions, RugCheck flags.
Repeating == {4, 9}

\* C24: in the reasons a scorer returns, the reasons stand in the evaluation
\* order of their rules, whatever their magnitudes, and no additive reason
\* follows a subtractive one.
C24_ReasonOrdering ==
    pc = "return" /\ call.fn \in {"calculate_risk_score", "calculate_dev_risk_score", "calculate_custom_score"} /\ "reasons" \in DOMAIN result =>
        \A i, j \in 1..Len(result.reasons) :
            i < j =>
                LET a == result.reasons[i]
                    b == result.reasons[j]
                IN  /\ RuleRank(a.label) <= RuleRank(b.label)
                    /\ RuleRank(a.label) = RuleRank(b.label)
                         => call.fn = "calculate_custom_score" /\ RuleRank(a.label) \in Repeating
                    /\ a.delta < 0 => b.delta < 0

\* A small reason ahead of larger ones, and both subtractive reasons at the end.
C24_Witness ==
    /\ Returns("calculate_custom_score")
    /\ Len(result.reasons) >= 5
    /\ \E i \in 1..Len(result.reasons) - 3 :
          /\ result.reasons[i].delta = 5
          /\ result.reasons[i + 1].delta = 25
    /\ Deltas(SubSeq(result.reasons, Len(result.reasons) - 1, Len(result.reasons))) = <<-10, -5>>

RECURSIVE SumDeltas(_)
SumDeltas(reasons) ==
    IF reasons = <<>> THEN 0 ELSE reasons[1].delta + SumDeltas(Tail(reasons))

\* C25: the score calculate_risk_score and calculate_custom_score return is
\* max(0, min(100, S)), S the sum of the deltas of the returned reasons, and it
\* is the score the rules give when evaluated in another order.
C25_ScoreIsClampedSum ==
    pc = "return" /\ call.fn \in {"calculate_risk_score", "calculate_custom_score"}
      /\ "score" \in DOMAIN result =>
        /\ result.score = Max(0, Min(100, SumDeltas(result.reasons)))
        /\ call.fn = "calculate_custom_score" =>
             result.score
               = calculate_custom_score_signals_first(call.args.rugcheck, call.args.dex).score

\* Rules adding up to more than 100 with a subtractive reason among them.
C25_Witness ==
    /\ Returns("calculate_custom_score")
    /\ SumDeltas(result.reasons) > 100
    /\ \E k \in 1..Len(result.reasons) : result.reasons[k].delta < 0
    /\ result.score = 100

\* C26: the score calculate_dev_risk_score returns is max(0, min(100, S)), S the
\* sum of the deltas of the returned reasons.
C26_DevScoreIsClampedSum ==
    Returns("calculate_dev_risk_score") =>
        result.score = Max(0, Min(100, SumDeltas(result.reasons)))

\* The holders of the report that are not infrastructure, in the report's order.
NonInfrastructure(rugcheck) ==
    LET known == IF "knownAccounts" \in DOMAIN rugcheck THEN rugcheck.knownAccounts ELSE Empty
        infra(h) ==
            IF h.address \in DOMAIN known
            THEN is_lp_or_dex_account(known[h.address].type, known[h.address].name, h.address)
            ELSE is_lp_or_dex_account("", <<>>, h.address)
    IN  IF "topHolders" \in DOMAIN rugcheck
        THEN SelectSeq(rugcheck.topHolders, LAMBDA h : ~infra(h))
        ELSE <<>>

HolderReasons(reasons) == SelectSeq(reasons, LAMBDA r : RuleRank(r.label) \in {6, 7})

\* C27: the holder reasons of calculate_custom_score are those of the holders
\* that are not LP, DEX or burn accounts: +20 when the first ten of them hold
\* more than 80%, else +10 above 50%; +15 when the first of them holds more than
\* 30%, else +8 above 20%; none when there is no such holder.
C27_ConcentrationOverRealHolders ==
    Returns("calculate_custom_score") =>
        LET real   == NonInfrastructure(call.args.rugcheck)
            top10  == SumPct(SubSeq(real, 1, IF Len(real) < 10 THEN Len(real) ELSE 10))
            conc   == IF real = <<>> THEN 0
                      ELSE IF top10 > 80 THEN 20 ELSE IF top10 > 50 THEN 10 ELSE 0
            single == IF real = <<>> THEN 0
                      ELSE IF real[1].pct > 30 THEN 15 ELSE IF real[1].pct > 20 THEN 8 ELSE 0
        IN  Deltas(HolderReasons(result.reasons)) = NonZero(<<conc, single>>)

\* A pool holding 60% listed first: only the 21% of the first wallet counts.
C27_Witness ==
    /\ Returns("calculate_custom_score")
    /\ "topHolders" \in DOMAIN call.args.rugcheck
    /\ Len(call.args.rugcheck.topHolders) = 3
    /\ call.args.rugcheck.topHolders[1].pct = 60
    /\ Len(NonInfrastructure(call.args.rugcheck)) = 2
    /\ Deltas(HolderReasons(result.reasons)) = <<8>>

\* The analysis has returned its statistics (not an error).
Analysed == pc \in {"returned", "done"} /\ ~IsNone(analysis) /\ ~HasError(analysis)

WindowWallets == {k \in 1..Len(wallet_purchases) : wallet_purchases[k].is_block0}

RECURSIVE SumOfWallets(_)
SumOfWallets(S) ==
    IF S = {} THEN 0
    ELSE LET k == CHOOSE x \in S : TRUE
         IN  wallet_purchases[k].amount + SumOfWallets(S \ {k})

C29_AnalysisInvariants ==
    /\ \A k \in 1..Len(wallet_purchases) : wallet_purchases[k].amount > 0
    /\ Analysed =>
         LET buyers == analysis.block0_buyers
         IN  /\ 0 <= analysis.block0_total
             /\ analysis.block0_total <= analysis.total_transferred
             /\ analysis.block0_pct.den > 0
             /\ 0 <= analysis.block0_pct.num
             /\ analysis.block0_pct.num <= 100 * analysis.block0_pct.den
             /\ analysis.block0_count <= analysis.all_buyers
             /\ \A i, j \in 1..Len(buyers) : i < j => buyers[i].amount >= buyers[j].amount
             /\ \A k \in WindowWallets :
                  /\ buyers # <<>>
                  /\ buyers[1].amount >= wallet_purchases[k].amount

\* 25 window buyers of 26 or 27 wallets, the largest of them not the first seen.
C29_Witness ==
    /\ Analysed
    /\ analysis.block0_count = 25
    /\ analysis.all_buyers > 25
    /\ analysis.block0_total < analysis.total_transferred
    /\ analysis.block0_buyers[1].amount = 12
    /\ wallet_purchases[1].amount = 2

\* C30: when main scores the statistics of the analysis and the clean-launch
\* rule applies (block0_count <= 2 and block0_pct < 5), the clean-launch reason
\* is the only reason and the score is 0.
C30_CleanLaunchAlone ==
    pc = "done" /\ entry = "main"
      /\ analysis.block0_count <= 2
      /\ analysis.block0_pct.num < 5 * analysis.block0_pct.den =>
        /\ "score" \in DOMAIN result
        /\ result.score = 0
        /\ result.reasons = <<[delta |-> -10, label |-> "Clean launch (minimal Block 0 activity)"]>>

\* Two window buyers holding 4% between them, the larger 3%.
C30_Witness ==
    /\ pc = "done"
    /\ Analysed
    /\ entry = "main"
    /\ analysis.block0_count = 2
    /\ analysis.block0_total = 4
    /\ analysis.total_transferred = 100
    /\ analysis.block0_buyers[1].amount = 3
    /\ result.score = 0
    /\ Len(result.reasons) = 1

====
